---- MODULE Spec2Model ----
(***************************************************************************)
(* The gateway session (packages/gateway/src/gateway/session.py) driving   *)
(* the agent turn loop (packages/agent/src/agent/client.py).               *)
(*                                                                         *)
(* asyncio runs one task at a time and switches tasks only at an await     *)
(* that suspends, so every action below is the code between two            *)
(* suspension points of one task.  A yield of the async generator          *)
(* AgentClient.prompt hands one event to Session._handle_prompt, which     *)
(* broadcasts it and resumes the generator when the broadcast is over.     *)
(***************************************************************************)
EXTENDS Integers, Sequences, FiniteSets, TLC

VARIABLES
  env,          \* what the environment may do in this behaviour (never changes)
  clients,      \* Session.clients
  closed,       \* connections whose transport is closed: ws.send raises
  lockHolder,   \* Session._prompt_lock: the handler inside "async with", 0 if free
  waiters,      \* Session._prompt_lock: handlers waiting in acquire(), oldest first
  h,            \* per prompt message: its handler task (Session._handle_prompt)
  pending,      \* per handler: the ws.send calls of its broadcast not yet complete
  inbox,        \* per client: the gateway messages it received, in order
  fr,           \* per frame other than a prompt, in arrival order: its handler task
                \* (in_tool is history: a tool was executing when it arrived)
  requested,    \* history: handlers in the order they asked for the lock
  admitted,     \* history: handlers in the order they entered agent.prompt
  running,      \* AgentClient._running
  stop_pc,      \* where AgentClient.stop() is: "idle", "closing" (in close()), "done"
  model,        \* AgentClient._model
  messages,     \* AgentClient._messages
  abort_event,  \* AgentClient._abort_event
  steer_queue,  \* AgentClient._steer_queue
  gen,          \* per prompt() call: the frame of the async generator
  events,       \* history, per prompt() call: the events it yielded
  backend,      \* history: the calls the completion backend received, in order
  used,         \* history: how much of env's budget is spent
  abortAt,      \* history, per prompt() call: where the call was when abort() came
  fs,           \* the disk and the processes the tools act on, and the last tool call
  cmd           \* the handler of a /compact or /reload steer, and Session.agent

vars == <<env, clients, closed, lockHolder, waiters, h, pending, inbox, fr, requested,
          admitted, running, stop_pc, model, messages, abort_event, steer_queue, gen, events,
          backend, used, abortAt, fs, cmd>>

gatewayVars == <<clients, lockHolder, waiters, h, pending, requested, admitted>>
agentVars == <<running, stop_pc, model, messages, abort_event, steer_queue, gen, events, backend,
               used, abortAt>>

---------------------------------------------------------------------------
(* Program constants (client.py) *)

DEFAULT_MODEL == "anthropic/claude-sonnet-4"
MAX_RETRIES == 3
INITIAL_BACKOFF == 1
MAX_BACKOFF == 30
RETRYABLE_STATUS_CODES == {429, 500, 502, 503}
CONTEXT_WINDOW == 200000
OTHER_CONTEXT_WINDOW == 128000
COMPACTION_THRESHOLD_TENTHS == 8
KEEP_RECENT_TOKENS == 20000
CHARS_PER_TOKEN == 4

(* ToolRegistry.get: the names default_tools() registers. *)
REGISTERED_TOOLS == {"bash", "read", "write", "edit", "search_web", "canvas"}

---------------------------------------------------------------------------
(* Bounds of the model *)

GwPrompts == 2      \* prompt messages in a behaviour of Spec
GwChunks == 1       \* chunks the backend streams in a behaviour of Spec
GwFails == 1        \* failed backend calls in a behaviour of Spec
FifoPrompts == 3    \* prompt messages in a behaviour of SpecFifo
AgChunks == 3       \* chunks the backend streams in a behaviour of SpecAgent
FrFrames == 2       \* frames other than prompts in a behaviour of SpecFrames
AgSteers == 2       \* steer frames in a behaviour of SpecAgent
AgSteerChunks == 2  \* chunks the backend streams in a behaviour with steers
CmdFrames == 2      \* steer frames in a behaviour with a /reload

GwClients == {"ws1", "ws2"}
AgClients == {"ws1"}

(* len(json.dumps(msg)) of a short message, of a message that alone fills    *)
(* the context window, and len(system prompt) + len(json.dumps(schemas)).    *)
Chars == [small |-> 80, medium |-> 100000, big |-> 700000, base |-> 4000]

Max(S) == CHOOSE x \in S : \A y \in S : y <= x
Min(S) == CHOOSE x \in S : \A y \in S : x <= y

Prompts == DOMAIN h

---------------------------------------------------------------------------
(* Events (agent/events.py) and gateway messages (gateway/protocol.py) *)

(* AgentEvent: id is tool_call_id, name is tool_name, text is delta, result or *)
(* summary, message is message, err is is_error.  The other fields of the     *)
(* class keep their defaults in every event the turn loop builds.             *)
AgentEvent(t, id, name, text, message, e) ==
  [type |-> t, id |-> id, name |-> name, text |-> text, message |-> message, err |-> e]
Ev(t) == AgentEvent(t, "", "", "", "", FALSE)

(* AgentEvent.to_dict then json.dumps: only the fields of the variant. *)
serialize_event(e) ==
  CASE e.type = "text_delta" -> AgentEvent(e.type, "", "", e.text, "", FALSE)
    [] e.type = "tool_start" -> AgentEvent(e.type, e.id, e.name, "", "", FALSE)
    [] e.type = "tool_end" -> AgentEvent(e.type, e.id, e.name, e.text, "", e.err)
    [] e.type = "error" -> AgentEvent(e.type, "", "", "", e.message, FALSE)
    [] e.type = "compaction_end" -> AgentEvent(e.type, "", "", e.text, "", FALSE)
    [] e.type = "model_info" -> AgentEvent(e.type, "", "", e.text, "", FALSE)
    [] OTHER -> Ev(e.type)

(* The text of prompt message p. *)
PromptText(p) == "prompt" \o ToString(p)

user_message(text) == AgentEvent("user_message", "", "", "", text, FALSE)
error_message(text) == AgentEvent("error", "", "", "", text, FALSE)

model_set(m) == AgentEvent("model_set", "", "", m, "", FALSE)
context_info_message(data) == [type |-> "context_info", data |-> data]

(* A gateway message as a client receives it, tagged with the handler that sent it. *)
Wire(p, m) == [from |-> p, m |-> m]

---------------------------------------------------------------------------
(* Client frames (gateway/protocol.py) *)

(* str.startswith, str.strip and str.split(None, 1) *)
startswith(s, prefix) == Len(s) >= Len(prefix) /\ SubSeq(s, 1, Len(prefix)) = prefix

Whitespace == {" ", "\t", "\n"}

RECURSIVE lstrip(_)
lstrip(s) ==
  IF s # "" /\ SubSeq(s, 1, 1) \in Whitespace THEN lstrip(SubSeq(s, 2, Len(s))) ELSE s

RECURSIVE rstrip(_)
rstrip(s) ==
  IF s # "" /\ SubSeq(s, Len(s), Len(s)) \in Whitespace
    THEN rstrip(SubSeq(s, 1, Len(s) - 1))
    ELSE s

strip(s) == rstrip(lstrip(s))

(* The first word of s, which has no leading whitespace. *)
RECURSIVE FirstWord(_)
FirstWord(s) ==
  IF s = "" \/ SubSeq(s, 1, 1) \in Whitespace
    THEN ""
    ELSE SubSeq(s, 1, 1) \o FirstWord(SubSeq(s, 2, Len(s)))

split1(s) ==
  LET t == lstrip(s)
      w == FirstWord(t)
      rest == lstrip(SubSeq(t, Len(w) + 1, Len(t)))
  IN IF t = "" THEN <<>> ELSE IF rest = "" THEN <<w>> ELSE <<w, rest>>

(* A member of the parsed JSON object as from_json looks at it: a string, a *)
(* non-empty list, or no member of that name.                                *)
Str(v) == [t |-> "str", v |-> v]
List(v) == [t |-> "list", v |-> v]
Missing == [t |-> "missing", v |-> ""]

(* The text of a frame: json is "invalid" for text that is no JSON,         *)
(* "array" for a JSON array, "object" for an object with these members.     *)
Frame(json, type, message) == [json |-> json, type |-> type, message |-> message]

ProtocolError(text) ==
  [ok |-> FALSE, exc |-> "ProtocolError", text |-> text, type |-> "", message |-> ""]
ValidationError ==
  [ok |-> FALSE, exc |-> "ValidationError", text |-> "", type |-> "", message |-> ""]
ClientMessage(type, message) ==
  [ok |-> TRUE, exc |-> "", text |-> "", type |-> type, message |-> message]

ACCEPTED_TYPES == {"prompt", "steer", "abort", "context_request"}

(* Python's truth value of parsed.get("message", "") *)
Truthy(v) == v.t # "missing" /\ v.v # ""

(* ClientMessage.from_json: a list for the str field fails the pydantic    *)
(* validation of the constructor.                                           *)
from_json(f) ==
  IF f.json = "invalid"
    THEN ProtocolError("Invalid JSON: Expecting value: line 1 column 1 (char 0)")
  ELSE IF f.json # "object"
    THEN ProtocolError("Message must be a JSON object")
  ELSE IF ~(f.type.t = "str" /\ f.type.v \in ACCEPTED_TYPES)
    THEN ProtocolError("Unknown message type: "
                       \o (IF f.type.t = "missing" THEN "None" ELSE f.type.v))
  ELSE IF f.type.v \in {"prompt", "steer"} /\ ~Truthy(f.message)
    THEN ProtocolError("'" \o f.type.v \o "' requires a 'message' field")
  ELSE IF f.message.t = "list"
    THEN ValidationError
  ELSE ClientMessage(f.type.v, f.message.v)

(* Frames a client may send *)
NotJson == Frame("invalid", Missing, Missing)
JsonArray == Frame("array", Missing, Missing)
UnknownType == Frame("object", Str("bogus"), Str("hi"))
NoType == Frame("object", Missing, Str("hi"))
PromptNoMessage == Frame("object", Str("prompt"), Missing)
SteerEmptyMessage == Frame("object", Str("steer"), Str(""))
PromptListMessage == Frame("object", Str("prompt"), List("x"))
ModelListRequest == Frame("object", Str("model_list_request"), Missing)
ContextRequest == Frame("object", Str("context_request"), Missing)
SteerFrame(text) == Frame("object", Str("steer"), Str(text))

OTHER_MODEL == "mistralai/mistral-large-2512"

InvalidFrames ==
  {NotJson, JsonArray, UnknownType, NoType, PromptNoMessage, SteerEmptyMessage,
   PromptListMessage}

SteerFrames ==
  {SteerFrame("/model " \o OTHER_MODEL), SteerFrame("/model"), SteerFrame(" /model-info"),
   SteerFrame("go on")}

QueryFrames == {ContextRequest, ModelListRequest, SteerFrame("/model " \o OTHER_MODEL)}

SteerTexts == {"go on", "shorter"}

PlainSteerFrames == {SteerFrame(t) : t \in SteerTexts}

Frames == InvalidFrames \cup SteerFrames \cup QueryFrames \cup PlainSteerFrames

---------------------------------------------------------------------------
(* Conversation messages *)

UserMsg(p, text, chars) ==
  [role |-> "user", pid |-> p, content |-> text, tool_calls |-> <<>>,
   tool_call_id |-> "", chars |-> chars]
AssistantMsg(p, text, tcs) ==
  [role |-> "assistant", pid |-> p, content |-> text, tool_calls |-> tcs,
   tool_call_id |-> "", chars |-> Chars.small]
ToolMsg(p, id, text) ==
  [role |-> "tool", pid |-> p, content |-> text, tool_calls |-> <<>>,
   tool_call_id |-> id, chars |-> Chars.small]

RECURSIVE SumChars(_)
SumChars(ms) == IF ms = <<>> THEN 0 ELSE Head(ms).chars + SumChars(Tail(ms))

estimate_tokens(ms) == (Chars.base + SumChars(ms)) \div CHARS_PER_TOKEN

(* _MODEL_CONTEXT_SIZES.get(model, 128000) *)
MODEL_CONTEXT_SIZES(m) == IF m = DEFAULT_MODEL THEN CONTEXT_WINDOW ELSE OTHER_CONTEXT_WINDOW

should_compact(ms) ==
  estimate_tokens(ms) > (MODEL_CONTEXT_SIZES(model) * COMPACTION_THRESHOLD_TENTHS) \div 10

RECURSIVE RecentTokens(_, _)
RecentTokens(ms, i) ==
  IF i > Len(ms) THEN 0 ELSE ms[i].chars \div CHARS_PER_TOKEN + RecentTokens(ms, i + 1)

(* A variant of _find_cut_point without the forward scan for a User or       *)
(* Assistant message.                                                        *)
find_cut_point_unscanned(ms) ==
  LET hits == {i \in 1..Len(ms) : RecentTokens(ms, i) >= KEEP_RECENT_TOKENS}
  IN IF hits = {} THEN 0 ELSE Max(hits) - 1

(* The 0-based index of the first message to keep, 0 if nothing to cut. *)
find_cut_point(ms) ==
  LET hits == {i \in 1..Len(ms) : RecentTokens(ms, i) >= KEEP_RECENT_TOKENS}
  IN IF hits = {} THEN 0
     ELSE LET keep == {j \in Max(hits)..Len(ms) : ms[j].role \in {"user", "assistant"}}
          IN IF keep = {} THEN 0 ELSE Min(keep) - 1

---------------------------------------------------------------------------
(* What the completion backend and the tools may answer *)

(* One streamed chunk: choices is FALSE for a chunk with an empty choices    *)
(* list; content is delta.content ("" for None); tc is the delta.tool_calls  *)
(* list, here of at most one tool-call delta; finish is finish_reason.       *)
Chunk(content, tc, finish) ==
  [choices |-> TRUE, content |-> content, tc |-> tc, finish |-> finish]
NoChoiceChunk == [choices |-> FALSE, content |-> "", tc |-> <<>>, finish |-> ""]

(* A tool-call delta; id, name, arguments are "" when the field is None. *)
TcDelta(index, id, name, arguments) ==
  [index |-> index, id |-> id, name |-> name, arguments |-> arguments]

TextChunks == {Chunk("a", <<>>, "")}
FinishChunks == {Chunk("", <<>>, "stop")}
ToolChunks ==
  {Chunk("", <<TcDelta(0, "c1", "bash", "{}")>>, "tool_calls"),
   Chunk("", <<TcDelta(0, "c1", "nope", "{")>>, ""),
   Chunk("", <<TcDelta(0, "", "", "}")>>, "tool_calls"),
   Chunk("", <<TcDelta(1, "c2", "bash", "1")>>, "tool_calls")}

(* The answers to chat.completions.create: a stream, an APIStatusError with  *)
(* a status code, an APIConnectionError.                                     *)
CreateOk == [kind |-> "ok", code |-> 200, message |-> ""]
StatusError(code) == [kind |-> "status", code |-> code, message |-> "status " \o ToString(code)]
ConnectionError == [kind |-> "connection", code |-> 0, message |-> "Connection error."]

(* The outcomes of tool.execute: a ToolResult, with is_error or not, or an   *)
(* exception.                                                                *)
ToolOutcomes == {"ok", "is_error", "raises"}

(* The conversation an earlier, finished prompt left behind. *)
Earlier ==
  <<[role |-> "user", pid |-> 0, content |-> "earlier", tool_calls |-> <<>>,
     tool_call_id |-> "", chars |-> Chars.small],
    [role |-> "assistant", pid |-> 0, content |-> "a", tool_calls |-> <<>>,
     tool_call_id |-> "", chars |-> Chars.small]>>

(* What the environment may do in one behaviour: how many prompt messages    *)
(* arrive and how long they are, which connections exist, which chunks the   *)
(* backend streams and how many, how many backend calls fail and how, how    *)
(* many abort frames arrive, how many connections close.                     *)
StreamEnv ==
  [prompts |-> 1, clients |-> AgClients, sizes |-> {Chars.small}, history |-> <<>>,
   alphabet |-> TextChunks \cup FinishChunks \cup ToolChunks \cup {NoChoiceChunk},
   chunks |-> AgChunks, fails |-> 1, aborts |-> 1, closes |-> 0,
   errors |-> {ConnectionError},
   started |-> TRUE, stops |-> 0, frames |-> {}, nframes |-> 0]

RetryEnv ==
  [prompts |-> 1, clients |-> AgClients, sizes |-> {Chars.small}, history |-> <<>>,
   alphabet |-> TextChunks,
   chunks |-> 1, fails |-> MAX_RETRIES, aborts |-> 1, closes |-> 0,
   errors |-> {StatusError(429), StatusError(401), ConnectionError},
   started |-> TRUE, stops |-> 0, frames |-> {}, nframes |-> 0]

CompactEnv ==
  [prompts |-> 1, clients |-> AgClients, sizes |-> {Chars.big}, history |-> Earlier,
   alphabet |-> TextChunks,
   chunks |-> 1, fails |-> 1, aborts |-> 1, closes |-> 0,
   errors |-> {StatusError(401)},
   started |-> TRUE, stops |-> 0, frames |-> {}, nframes |-> 0]

(* The gateway serves before AgentClient.start() has run, and stop() runs   *)
(* while handler tasks may still be alive.                                   *)
LifecycleEnv ==
  [prompts |-> 1, clients |-> AgClients, sizes |-> {Chars.small}, history |-> Earlier,
   alphabet |-> TextChunks \cup FinishChunks,
   chunks |-> 1, fails |-> 0, aborts |-> 0, closes |-> 0,
   errors |-> {},
   started |-> FALSE, stops |-> 1, frames |-> {}, nframes |-> 0]

(* Steer frames arrive while a prompt with a tool call runs. *)
SteerEnv ==
  [prompts |-> 1, clients |-> AgClients, sizes |-> {Chars.small}, history |-> <<>>,
   alphabet |-> {Chunk("", <<TcDelta(0, "c1", "bash", "{}")>>, "tool_calls")}
                  \cup TextChunks,
   chunks |-> AgSteerChunks, fails |-> 0, aborts |-> 0, closes |-> 0,
   errors |-> {},
   started |-> TRUE, stops |-> 0, frames |-> PlainSteerFrames,
   nframes |-> AgSteers]

(* A response of text fragments, some of them empty. *)
FragmentChunks == {Chunk("Hello", <<>>, ""), Chunk(" world", <<>>, ""), Chunk("", <<>>, "stop")}

TextEnv ==
  [prompts |-> 1, clients |-> AgClients, sizes |-> {Chars.small}, history |-> Earlier,
   alphabet |-> FragmentChunks \cup {NoChoiceChunk},
   chunks |-> AgChunks, fails |-> 0, aborts |-> 1, closes |-> 0,
   errors |-> {},
   started |-> TRUE, stops |-> 0, frames |-> {SteerFrame("go on")}, nframes |-> 1]

(* Two tool calls in one response, whose deltas may arrive in either order. *)
TwoCallChunks ==
  {Chunk("", <<TcDelta(1, "c2", "bash", "{}")>>, ""),
   Chunk("", <<TcDelta(0, "c1", "bash", "{}")>>, "tool_calls")}

MultiToolEnv ==
  [prompts |-> 1, clients |-> AgClients, sizes |-> {Chars.small}, history |-> <<>>,
   alphabet |-> TwoCallChunks \cup TextChunks,
   chunks |-> AgChunks, fails |-> 0, aborts |-> 1, closes |-> 0,
   errors |-> {},
   started |-> TRUE, stops |-> 0, frames |-> {}, nframes |-> 0]

AgentEnvs ==
  {StreamEnv, RetryEnv, CompactEnv, LifecycleEnv, SteerEnv, MultiToolEnv, TextEnv}

CloseEnv ==
  [prompts |-> GwPrompts, clients |-> GwClients, sizes |-> {Chars.small}, history |-> <<>>,
   alphabet |-> TextChunks,
   chunks |-> GwChunks, fails |-> 0, aborts |-> 0, closes |-> 1,
   errors |-> {},
   started |-> TRUE, stops |-> 0, frames |-> {}, nframes |-> 0]

AbortEnv ==
  [prompts |-> GwPrompts, clients |-> GwClients, sizes |-> {Chars.small}, history |-> <<>>,
   alphabet |-> TextChunks,
   chunks |-> GwChunks, fails |-> GwFails, aborts |-> 1, closes |-> 0,
   errors |-> {StatusError(401)},
   started |-> TRUE, stops |-> 0, frames |-> {}, nframes |-> 0]

GatewayEnvs == {CloseEnv, AbortEnv}

FifoEnv ==
  [prompts |-> FifoPrompts, clients |-> AgClients, sizes |-> {Chars.small}, history |-> <<>>,
   alphabet |-> TextChunks,
   chunks |-> 0, fails |-> 0, aborts |-> 0, closes |-> 0,
   errors |-> {},
   started |-> TRUE, stops |-> 0, frames |-> {}, nframes |-> 0]

(* One prompt and FrFrames other frames from two connections. *)
FramesEnv(frames) ==
  [prompts |-> 1, clients |-> GwClients, sizes |-> {Chars.small}, history |-> <<>>,
   alphabet |-> TextChunks,
   chunks |-> 0, fails |-> 0, aborts |-> 0, closes |-> 0,
   errors |-> {},
   started |-> TRUE, stops |-> 0, frames |-> frames, nframes |-> FrFrames]

FrameEnvs == {FramesEnv(InvalidFrames), FramesEnv(SteerFrames), FramesEnv(QueryFrames)}

---------------------------------------------------------------------------
(* The frame of one AgentClient.prompt generator *)

(* pc is where the generator resumes; out holds the events of consecutive    *)
(* yield statements not yet yielded.  The rest are the locals of prompt()    *)
(* and of the _create_stream_with_retry and _compact calls inside it.        *)
NoCall == [id |-> "", name |-> "", arguments |-> ""]
NoCalls == [i \in {} |-> NoCall]

GenInit ==
  [pc |-> "init", out |-> <<>>,
   attempt |-> 0, backoff |-> 0, slept |-> <<>>, answers |-> <<>>,
   nstreams |-> 0, nread |-> 0,
   content_parts |-> "", tool_calls_by_index |-> NoCalls, finish_reason |-> "",
   todo |-> <<>>, tc |-> NoCall, result_text |-> "", is_error |-> FALSE,
   kept |-> <<>>, tokens_before |-> 0, exc |-> "",
   opened |-> <<>>, failed |-> FALSE, stream |-> <<>>]

(* Session.agent is the AgentClient that run() built (agent 0) until a      *)
(* /reload has swapped in the one it built (agent 1); no command handler is *)
(* running.                                                                  *)
NoAgent == [model |-> "", system_prompt |-> "", messages |-> <<>>, running |-> FALSE,
            client |-> FALSE]

NoCommand ==
  [kind |-> "", id |-> 0, pc |-> "idle", cut |-> 0, kept |-> <<>>, tokens_before |-> 0,
   agent |-> 0, new |-> NoAgent, old |-> NoAgent, saved |-> NoAgent,
   in_turn |-> FALSE]

NoAbort ==
  [set |-> FALSE, pc |-> "", nev |-> 0, out |-> <<>>, nmsg |-> 0, nread |-> 0, nstreams |-> 0]

InitSession(e) ==
  /\ env = e
  /\ clients = e.clients
  /\ closed = {}
  /\ lockHolder = 0
  /\ waiters = <<>>
  /\ h = [p \in 1..e.prompts |-> [pc |-> "idle", chars |-> 0]]
  /\ pending = [p \in 1..(e.prompts + e.nframes) |-> {}]
  /\ inbox = [c \in e.clients |-> <<>>]
  /\ requested = <<>>
  /\ admitted = <<>>
  /\ fr = <<>>
  /\ running = e.started
  /\ stop_pc = "idle"
  /\ model = DEFAULT_MODEL
  /\ messages = IF e.started THEN e.history ELSE <<>>
  /\ abort_event = FALSE
  /\ steer_queue = <<>>
  /\ gen = [p \in 1..e.prompts |-> GenInit]
  /\ events = [p \in 1..e.prompts |-> <<>>]
  /\ backend = <<>>
  /\ used = [chunks |-> 0, fails |-> 0, aborts |-> 0, closes |-> 0, stops |-> 0]
  /\ abortAt = [p \in 1..e.prompts |-> NoAbort]

(* No tool call is followed in the behaviours of the session. *)
InitWith(e) == InitSession(e) /\ fs = <<>> /\ cmd = NoCommand

(* The state after run() has built the session, started the agent and       *)
(* accepted the connections.                                                 *)
Init == \E e \in GatewayEnvs : InitWith(e)
InitAgent == \E e \in AgentEnvs : InitWith(e)
InitFifo == InitWith(FifoEnv)
InitFrames == \E e \in FrameEnvs : InitWith(e)

---------------------------------------------------------------------------
(* Session: broadcast and the prompt handler *)

(* Session.broadcast: one ws.send of the message per client of the set as it *)
(* is now; the gather is over at once when the set is empty.                 *)
broadcast(m) == {[to |-> c, m |-> m] : c \in clients}

EchoNothing(p) == user_message("")

(* session.py 353: the echo of prompt message p. *)
Echo(p) == user_message(PromptText(p))

NotAwaited(p) == TRUE

(* "await self.broadcast(...)" returns: the gather of the sends is over. *)
BroadcastDone(p) == pending[p] = {}

(* A prompt message arrives: server.handler creates the task, which parses   *)
(* the frame and starts the user_message echo.  Prompts are numbered in      *)
(* arrival order.                                                            *)
PromptArrive(p) ==
  /\ h[p].pc = "idle"
  /\ IF p = 1 THEN TRUE ELSE h[p - 1].pc # "idle"
  /\ \E chars \in env.sizes : h' = [h EXCEPT ![p] = [pc |-> "echo", chars |-> chars]]
  /\ pending' = [pending EXCEPT ![p] = broadcast(Echo(p))]
  /\ UNCHANGED <<env, fs, cmd, fr, clients, closed, lockHolder, waiters, inbox, requested, admitted>>
  /\ UNCHANGED agentVars

(* One ws.send of a broadcast completes on an open connection. *)
SendOk(p, c) ==
  /\ c \notin closed
  /\ \E s \in pending[p] :
       /\ s.to = c
       /\ inbox' = [inbox EXCEPT ![c] = Append(@, Wire(p, s.m))]
       /\ pending' = [pending EXCEPT ![p] = @ \ {s}]
  /\ UNCHANGED <<env, fs, cmd, fr, clients, closed, lockHolder, waiters, h, requested, admitted>>
  /\ UNCHANGED agentVars

SendFailCancels(p, c) ==
  /\ c \in closed
  /\ \E s \in pending[p] : s.to = c
  /\ pending' = [pending EXCEPT ![p] = {}]
  /\ UNCHANGED <<env, fs, cmd, fr, clients, closed, lockHolder, waiters, h, inbox, requested, admitted>>
  /\ UNCHANGED agentVars

(* One ws.send raises on a closed connection; gather(return_exceptions=True) *)
(* keeps the exception as a result.                                          *)
SendFail(p, c) ==
  /\ c \in closed
  /\ \E s \in pending[p] :
       /\ s.to = c
       /\ pending' = [pending EXCEPT ![p] = @ \ {s}]
  /\ UNCHANGED <<env, fs, cmd, fr, clients, closed, lockHolder, waiters, h, inbox, requested, admitted>>
  /\ UNCHANGED agentVars

(* The transport of a connection closes. *)
ConnClose(c) ==
  /\ c \in clients \ closed
  /\ used.closes < env.closes
  /\ closed' = closed \cup {c}
  /\ used' = [used EXCEPT !.closes = @ + 1]
  /\ UNCHANGED <<env, fs, cmd, fr, clients, lockHolder, waiters, h, pending, inbox, requested, admitted>>
  /\ UNCHANGED <<running, stop_pc, model, messages, abort_event, steer_queue, gen, events, backend, abortAt>>

AlwaysFree == TRUE

(* asyncio.Lock.acquire returns at once only when the lock is free and      *)
(* nobody waits.                                                             *)
LockFree == lockHolder = 0 /\ waiters = <<>>

LastWaiter(w) == Len(w)

(* asyncio.Lock.release wakes the waiter at the head of the queue. *)
NextWaiter(w) == 1

(* "async with self._prompt_lock", entered when the echo broadcast is over. *)
Acquire(p) ==
  /\ h[p].pc = "echo"
  /\ BroadcastDone(p)
  /\ requested' = Append(requested, p)
  /\ IF LockFree
       THEN /\ lockHolder' = p
            /\ h' = [h EXCEPT ![p].pc = "run"]
            /\ admitted' = Append(admitted, p)
            /\ UNCHANGED waiters
       ELSE /\ waiters' = Append(waiters, p)
            /\ h' = [h EXCEPT ![p].pc = "wait"]
            /\ UNCHANGED <<lockHolder, admitted>>
  /\ UNCHANGED <<env, fs, cmd, fr, clients, closed, pending, inbox>>
  /\ UNCHANGED agentVars

(* Leaving "async with": the lock goes to the next waiter, if any. *)
Release(p, hh) ==
  IF waiters = <<>>
    THEN /\ lockHolder' = (IF lockHolder = p THEN 0 ELSE lockHolder)
         /\ h' = hh
         /\ UNCHANGED <<waiters, admitted>>
    ELSE LET i == NextWaiter(waiters)
             q == waiters[i]
         IN /\ lockHolder' = q
            /\ waiters' = SubSeq(waiters, 1, i - 1) \o SubSeq(waiters, i + 1, Len(waiters))
            /\ h' = [hh EXCEPT ![q].pc = "run"]
            /\ admitted' = Append(admitted, q)

(* Session.handle_client_message for an abort frame: AgentClient.abort. *)
Abort ==
  /\ ~abort_event
  /\ used.aborts < env.aborts
  /\ abort_event' = TRUE
  /\ used' = [used EXCEPT !.aborts = @ + 1]
  /\ abortAt' = [p \in Prompts |->
       IF gen[p].pc \notin {"init", "done"} /\ ~abortAt[p].set
         THEN [set |-> TRUE, pc |-> gen[p].pc, nev |-> Len(events[p]), out |-> gen[p].out,
               nmsg |-> Len(messages), nread |-> gen[p].nread,
               nstreams |-> gen[p].nstreams]
         ELSE abortAt[p]]
  /\ UNCHANGED <<env, fs, cmd, fr, closed, inbox>>
  /\ UNCHANGED gatewayVars
  /\ UNCHANGED <<running, stop_pc, model, messages, steer_queue, gen, events, backend>>

---------------------------------------------------------------------------
(* Session.handle_client_message for the other frames *)

(* The handler task of the i-th such frame; its sends are pending[FrameId(i)]. *)
FrameId(i) == env.prompts + i

(* AgentClient.context_info *)
RoleTokens(role) ==
  SumChars(SelectSeq(messages, LAMBDA m : m.role = role)) \div CHARS_PER_TOKEN

context_info ==
  [base |-> Chars.base \div CHARS_PER_TOKEN,
   user |-> RoleTokens("user"), assistant |-> RoleTokens("assistant"),
   tool_results |-> RoleTokens("tool"),
   context_window |-> MODEL_CONTEXT_SIZES(model)]

(* What a handler does before its first await: the sends it starts, the    *)
(* agent operations it calls (history), the model and the steer queue it   *)
(* leaves, and the exception that ends it, if any.                          *)
Effect(sends, calls, m, q, exc) ==
  [sends |-> sends, calls |-> calls, model |-> m, steer_queue |-> q, exc |-> exc]

ReplyAll(c, m) == broadcast(m)

(* ws.send to the sender only *)
Reply(c, m) == {[to |-> c, m |-> m]}

(* session.py 189-204 *)
handle_model_command(command) ==
  LET parts == split1(command)
  IN IF Len(parts) < 2
       THEN Effect(broadcast(model_set(model)), <<>>, model, steer_queue, "")
       ELSE Effect(broadcast(model_set(strip(parts[2]))), <<"set_model">>,
                   strip(parts[2]), steer_queue, "")

ModelInfoEvent == AgentEvent("model_info", "", "", model, "", FALSE)

(* AgentClient.steer, client.py 341-406, for a text other than /compact *)
steer(message) ==
  IF strip(message) = "/model-info"
    THEN IF ~running
           THEN Effect({}, <<"steer">>, model, steer_queue, "AgentNotRunning")
           ELSE Effect(broadcast(serialize_event(ModelInfoEvent)), <<"steer">>, model,
                       steer_queue, "")
    ELSE Effect({}, <<"steer">>, model, Append(steer_queue, message), "")

(* session.py 87-98, for a text other than /reload and /reasoning *)
HandleSteer(message) ==
  IF startswith(strip(message), "/model")
    THEN handle_model_command(strip(message))
    ELSE steer(message)

(* session.py 76-104 *)
Handle(c, f) ==
  LET msg == from_json(f)
  IN IF ~msg.ok
       THEN IF msg.exc = "ProtocolError"
              THEN Effect(Reply(c, error_message(msg.text)), <<>>, model, steer_queue, "")
              ELSE Effect({}, <<>>, model, steer_queue, msg.exc)
       ELSE IF msg.type = "steer"
              THEN HandleSteer(msg.message)
              ELSE Effect(Reply(c, context_info_message(context_info)),
                          <<"context_info">>, model, steer_queue, "")

(* A frame arrives on connection c: server.handler creates the task, which *)
(* runs to its first await.  Valid prompt and abort frames are PromptArrive *)
(* and Abort.                                                               *)
FrameArrive(c, f) ==
  /\ c \in clients \ closed
  /\ f \in env.frames
  /\ Len(fr) < env.nframes
  /\ LET e == Handle(c, f)
     IN /\ pending' = [pending EXCEPT ![FrameId(Len(fr) + 1)] = e.sends]
        /\ model' = e.model
        /\ steer_queue' = e.steer_queue
        /\ fr' = Append(fr, [c |-> c, frame |-> f, calls |-> e.calls, exc |-> e.exc,
                             in_tool |-> \E p \in Prompts : gen[p].pc = "tool_running"])
  /\ UNCHANGED <<env, fs, cmd, clients, closed, lockHolder, waiters, h, inbox, requested, admitted>>
  /\ UNCHANGED <<running, stop_pc, messages, abort_event, gen, events, backend, used,
                 abortAt>>

---------------------------------------------------------------------------
(* AgentClient.start and AgentClient.stop *)

(* reload_session: the session file, when there is one, replaces the        *)
(* conversation; env.history is what the file holds.                         *)
reload_session(ms) == IF env.history = <<>> THEN ms ELSE env.history

(* client.py 90-103, called by run() once the server accepts connections. *)
AgentStart ==
  /\ ~running
  /\ stop_pc = "idle"
  /\ messages' = reload_session(<<>>)
  /\ abort_event' = FALSE
  /\ running' = TRUE
  /\ UNCHANGED <<env, fs, cmd, fr, closed, inbox>>
  /\ UNCHANGED gatewayVars
  /\ UNCHANGED <<stop_pc, model, steer_queue, gen, events, backend, used, abortAt>>

(* client.py 105-108: stop() sets the abort flag and awaits the close of    *)
(* the backend client.                                                       *)
StopBegin ==
  /\ running
  /\ stop_pc = "idle"
  /\ used.stops < env.stops
  /\ abort_event' = TRUE
  /\ stop_pc' = "closing"
  /\ used' = [used EXCEPT !.stops = @ + 1]
  /\ UNCHANGED <<env, fs, cmd, fr, closed, inbox>>
  /\ UNCHANGED gatewayVars
  /\ UNCHANGED <<running, model, messages, steer_queue, gen, events, backend, abortAt>>

(* client.py 109-110: the close is over; the client is dropped. *)
StopEnd ==
  /\ stop_pc = "closing"
  /\ running' = FALSE
  /\ stop_pc' = "done"
  /\ UNCHANGED <<env, fs, cmd, fr, closed, inbox>>
  /\ UNCHANGED gatewayVars
  /\ UNCHANGED <<model, messages, abort_event, steer_queue, gen, events, backend, used,
                 abortAt>>

---------------------------------------------------------------------------
(* AgentClient.prompt: the turn loop *)

(* The handler is inside "async for" and waits for the generator: its last  *)
(* broadcast is over and the generator has no yield pending.                *)
Ready(p) == h[p].pc = "run" /\ BroadcastDone(p) /\ gen[p].out = <<>>

ErrorEvent(text) == AgentEvent("error", "", "", "", text, FALSE)

(* The request of chat.completions.create(stream=True) as the backend sees it. *)
StreamCall(p, ms) == [p |-> p, op |-> "stream", nmsg |-> Len(ms)]
SummaryCall(p, ms) == [p |-> p, op |-> "summary", nmsg |-> Len(ms)]

(* json.loads of a tool call's arguments string. *)
json_loads(text) ==
  CASE text = "{}" -> "object"
    [] text = "1" -> "number"
    [] OTHER -> "JSONDecodeError"

(* client.py 276-279: func_args, with {} on a parse failure. *)
func_args(text) == IF json_loads(text) = "JSONDecodeError" THEN "object" ELSE json_loads(text)

(* AgentEvent declares args: dict[str, Any]; pydantic refuses anything else. *)
ArgsValidate(args) == args = "object"

(* client.py 218-233: one tool-call delta merged into tool_calls_by_index. *)
MergeDelta(by_index, d) ==
  LET old == IF d.index \in DOMAIN by_index
               THEN by_index[d.index]
               ELSE [id |-> d.id, name |-> "", arguments |-> ""]
      new == [id |-> IF d.id # "" THEN d.id ELSE old.id,
              name |-> old.name \o d.name,
              arguments |-> old.arguments \o d.arguments]
  IN [i \in DOMAIN by_index \cup {d.index} |-> IF i = d.index THEN new ELSE by_index[i]]

RECURSIVE MergeDeltas(_, _)
MergeDeltas(by_index, ds) ==
  IF ds = <<>> THEN by_index ELSE MergeDeltas(MergeDelta(by_index, Head(ds)), Tail(ds))

RECURSIVE sorted_descending(_)
sorted_descending(by_index) ==
  IF DOMAIN by_index = {} THEN <<>>
  ELSE LET i == Max(DOMAIN by_index)
       IN <<by_index[i]>> \o
          sorted_descending([j \in DOMAIN by_index \ {i} |-> by_index[j]])

(* client.py 248-250: the calls in ascending index order. *)
RECURSIVE sorted_tool_calls(_)
sorted_tool_calls(by_index) ==
  IF DOMAIN by_index = {} THEN <<>>
  ELSE LET i == Min(DOMAIN by_index)
       IN <<by_index[i]>> \o
          sorted_tool_calls([j \in DOMAIN by_index \ {i} |-> by_index[j]])

(* A variant of the loop head in which a failed tool ends the prompt. *)
NextToolStopsOnError(g, todo, aborted) ==
  IF g.is_error \/ aborted
    THEN [g EXCEPT !.out = <<Ev("turn_end"), Ev("agent_end")>>, !.pc = "return"]
  ELSE IF todo = <<>>
    THEN [g EXCEPT !.out = <<Ev("turn_end"), Ev("turn_start")>>, !.pc = "loop_top",
                   !.todo = <<>>]
  ELSE IF ~ArgsValidate(func_args(Head(todo).arguments))
    THEN [g EXCEPT !.pc = "raise", !.exc = "ValidationError", !.tc = Head(todo)]
  ELSE [g EXCEPT !.out = <<AgentEvent("tool_start", Head(todo).id, Head(todo).name,
                                      "", "", FALSE)>>,
                 !.pc = "tool_exec", !.tc = Head(todo), !.todo = Tail(todo)]

(* A variant of the loop head that does not test the abort flag. *)
NextToolIgnoresAbort(g, todo, aborted) ==
  IF todo = <<>>
    THEN [g EXCEPT !.out = <<Ev("turn_end"), Ev("turn_start")>>, !.pc = "loop_top",
                   !.todo = <<>>]
  ELSE IF ~ArgsValidate(func_args(Head(todo).arguments))
    THEN [g EXCEPT !.pc = "raise", !.exc = "ValidationError", !.tc = Head(todo)]
  ELSE [g EXCEPT !.out = <<AgentEvent("tool_start", Head(todo).id, Head(todo).name,
                                      "", "", FALSE)>>,
                 !.pc = "tool_exec", !.tc = Head(todo), !.todo = Tail(todo)]

(* client.py 268-286: the head of "for tc in sorted_tool_calls", up to the   *)
(* yield of tool_start; 335-336 when the calls are exhausted.                *)
NextTool(g, todo, aborted) ==
  IF todo = <<>>
    THEN [g EXCEPT !.out = <<Ev("turn_end"), Ev("turn_start")>>, !.pc = "loop_top",
                   !.todo = <<>>]
  ELSE IF aborted
    THEN [g EXCEPT !.out = <<Ev("turn_end"), Ev("agent_end")>>, !.pc = "return"]
  ELSE IF ~ArgsValidate(func_args(Head(todo).arguments))
    THEN [g EXCEPT !.pc = "raise", !.exc = "ValidationError", !.tc = Head(todo)]
  ELSE [g EXCEPT !.out = <<AgentEvent("tool_start", Head(todo).id, Head(todo).name,
                                      "", "", FALSE)>>,
                 !.pc = "tool_exec", !.tc = Head(todo), !.todo = Tail(todo)]

(* client.py 546-553: the first attempt of _create_stream_with_retry. *)
BeginOpen(g) == [g EXCEPT !.pc = "creating", !.attempt = 0, !.backoff = INITIAL_BACKOFF,
                          !.slept = <<>>, !.answers = <<>>]

(* A yield: the event goes to _handle_prompt, which broadcasts it. *)
Yield(p) ==
  /\ h[p].pc = "run"
  /\ BroadcastDone(p)
  /\ gen[p].out # <<>>
  /\ events' = [events EXCEPT ![p] = Append(@, Head(gen[p].out))]
  /\ gen' = [gen EXCEPT ![p].out = Tail(@)]
  /\ pending' = [pending EXCEPT ![p] = @ \cup broadcast(serialize_event(Head(gen[p].out)))]
  /\ UNCHANGED <<env, fs, cmd, fr, clients, closed, lockHolder, waiters, h, inbox, requested, admitted>>
  /\ UNCHANGED <<running, stop_pc, model, messages, abort_event, steer_queue, backend, used, abortAt>>

StartClearsFirst(p) ==
  /\ Ready(p)
  /\ gen[p].pc = "init"
  /\ abort_event' = FALSE
  /\ IF ~running
       THEN /\ gen' = [gen EXCEPT ![p].pc = "raise", ![p].exc = "AgentNotRunning"]
            /\ UNCHANGED messages
       ELSE /\ messages' = Append(messages, UserMsg(p, PromptText(p), h[p].chars))
            /\ gen' = [gen EXCEPT ![p].out = <<Ev("turn_start")>>, ![p].pc = "loop_top"]
  /\ UNCHANGED <<env, fs, cmd, fr, closed, inbox>>
  /\ UNCHANGED gatewayVars
  /\ UNCHANGED <<running, stop_pc, model, steer_queue, events, backend, used, abortAt>>

(* client.py 147-153 *)
Start(p) ==
  /\ Ready(p)
  /\ gen[p].pc = "init"
  /\ IF ~running
       THEN /\ gen' = [gen EXCEPT ![p].pc = "raise", ![p].exc = "AgentNotRunning"]
            /\ UNCHANGED <<abort_event, messages>>
       ELSE /\ abort_event' = FALSE
            /\ messages' = Append(messages, UserMsg(p, PromptText(p), h[p].chars))
            /\ gen' = [gen EXCEPT ![p].out = <<Ev("turn_start")>>, ![p].pc = "loop_top"]
  /\ UNCHANGED <<env, fs, cmd, fr, closed, inbox>>
  /\ UNCHANGED gatewayVars
  /\ UNCHANGED <<running, stop_pc, model, steer_queue, events, backend, used, abortAt>>

DrainedNewestFirst(p, ms, q) ==
  ms \o [i \in 1..Len(q) |-> UserMsg(p, q[Len(q) + 1 - i], Chars.small)]

(* client.py 156-162: the steer queue is emptied into the conversation. *)
Drained(p, ms, q) == ms \o [i \in 1..Len(q) |-> UserMsg(p, q[i], Chars.small)]

(* client.py 155-171 and, without compaction, 188-190 up to the await *)
LoopTop(p) ==
  /\ Ready(p)
  /\ gen[p].pc = "loop_top"
  /\ LET drained == Drained(p, messages, steer_queue)
     IN /\ messages' = drained
        /\ steer_queue' = <<>>
        /\ IF abort_event
             THEN /\ gen' = [gen EXCEPT ![p].out = <<Ev("turn_end"), Ev("agent_end")>>,
                                        ![p].pc = "return"]
                  /\ UNCHANGED backend
           ELSE IF should_compact(drained)
             THEN /\ gen' = [gen EXCEPT ![p].out = <<Ev("compaction_start")>>,
                                        ![p].pc = "compact"]
                  /\ UNCHANGED backend
           ELSE /\ gen' = [gen EXCEPT ![p] = BeginOpen(@)]
                /\ backend' = Append(backend, StreamCall(p, drained))
  /\ UNCHANGED <<env, fs, cmd, fr, closed, inbox>>
  /\ UNCHANGED gatewayVars
  /\ UNCHANGED <<running, stop_pc, model, abort_event, events, used, abortAt>>

(* client.py 173 into _compact, 463-486 up to the await *)
Compact(p) ==
  /\ Ready(p)
  /\ gen[p].pc = "compact"
  /\ LET cut == find_cut_point(messages)
         tokens_before == estimate_tokens(messages)
     IN IF cut <= 0
          THEN /\ gen' = [gen EXCEPT
                    ![p].out = <<AgentEvent("compaction_end", "", "", "(Nothing to compact)",
                                            "", FALSE)>>,
                    ![p].tokens_before = tokens_before,
                    ![p].pc = "open"]
               /\ UNCHANGED backend
          ELSE /\ gen' = [gen EXCEPT
                    ![p].kept = SubSeq(messages, cut + 1, Len(messages)),
                    ![p].tokens_before = tokens_before,
                    ![p].pc = "compacting"]
               /\ backend' = Append(backend, SummaryCall(p, SubSeq(messages, 1, cut)))
  /\ UNCHANGED <<env, fs, cmd, fr, closed, inbox>>
  /\ UNCHANGED gatewayVars
  /\ UNCHANGED <<running, stop_pc, model, messages, abort_event, steer_queue, events, used, abortAt>>

(* client.py 487-495 and 174-186: the summary call returns or raises *)
Compacting(p) ==
  /\ Ready(p)
  /\ gen[p].pc = "compacting"
  /\ \E ok \in {TRUE} \cup (IF used.fails < env.fails THEN {FALSE} ELSE {}) :
       IF ok
         THEN /\ messages' =
                   <<UserMsg(p, "[Previous conversation summary]", Chars.small),
                     AssistantMsg(p, "Understood.", <<>>)>> \o gen[p].kept
              /\ gen' = [gen EXCEPT
                   ![p].out = <<AgentEvent("compaction_end", "", "", "summary", "", FALSE)>>,
                   ![p].pc = "open"]
              /\ UNCHANGED used
         ELSE /\ gen' = [gen EXCEPT
                   ![p].out = <<AgentEvent("compaction_end", "", "", "",
                                           "Compaction failed", FALSE)>>,
                   ![p].pc = "open"]
              /\ used' = [used EXCEPT !.fails = @ + 1]
              /\ UNCHANGED messages
  /\ UNCHANGED <<env, fs, cmd, fr, closed, inbox>>
  /\ UNCHANGED gatewayVars
  /\ UNCHANGED <<running, stop_pc, model, abort_event, steer_queue, events, backend, abortAt>>

(* client.py 188-190 after a compaction: into _create_stream_with_retry *)
Open(p) ==
  /\ Ready(p)
  /\ gen[p].pc = "open"
  /\ gen' = [gen EXCEPT ![p] = BeginOpen(@)]
  /\ backend' = Append(backend, StreamCall(p, messages))
  /\ UNCHANGED <<env, fs, cmd, fr, closed, inbox>>
  /\ UNCHANGED gatewayVars
  /\ UNCHANGED <<running, stop_pc, model, messages, abort_event, steer_queue, events, used, abortAt>>

CreateResultOneMore(g, r) ==
  IF r.kind = "ok"
    THEN [g EXCEPT !.pc = "reading", !.nstreams = @ + 1, !.nread = 0,
                   !.content_parts = "", !.tool_calls_by_index = NoCalls, !.stream = <<>>,
                   !.finish_reason = ""]
  ELSE IF r.kind = "status" /\ r.code \notin RETRYABLE_STATUS_CODES
    THEN [g EXCEPT !.out = <<ErrorEvent("API error (" \o ToString(r.code) \o "): "
                                        \o r.message),
                             Ev("agent_end")>>,
                   !.pc = "return"]
  ELSE IF g.attempt < MAX_RETRIES
    THEN [g EXCEPT !.pc = "sleeping"]
  ELSE [g EXCEPT !.out = <<ErrorEvent("Max retries (" \o ToString(MAX_RETRIES)
                                      \o ") exceeded: " \o r.message),
                           Ev("agent_end")>>,
                 !.pc = "return"]

CreateResultRetryAny(g, r) ==
  IF r.kind = "ok"
    THEN [g EXCEPT !.pc = "reading", !.nstreams = @ + 1, !.nread = 0,
                   !.content_parts = "", !.tool_calls_by_index = NoCalls, !.stream = <<>>,
                   !.finish_reason = ""]
  ELSE IF g.attempt < MAX_RETRIES - 1
    THEN [g EXCEPT !.pc = "sleeping"]
  ELSE [g EXCEPT !.out = <<ErrorEvent("Max retries (" \o ToString(MAX_RETRIES)
                                      \o ") exceeded: " \o r.message),
                           Ev("agent_end")>>,
                 !.pc = "return"]

(* _create_stream_with_retry, client.py 553-581, and 190-199: the create    *)
(* call returns a stream or raises.                                          *)
CreateResult(g, r) ==
  IF r.kind = "ok"
    THEN [g EXCEPT !.pc = "reading", !.nstreams = @ + 1, !.nread = 0,
                   !.content_parts = "", !.tool_calls_by_index = NoCalls, !.stream = <<>>,
                   !.finish_reason = ""]
  ELSE IF r.kind = "status" /\ r.code \notin RETRYABLE_STATUS_CODES
    THEN [g EXCEPT !.out = <<ErrorEvent("API error (" \o ToString(r.code) \o "): "
                                        \o r.message),
                             Ev("agent_end")>>,
                   !.pc = "return"]
  ELSE IF g.attempt < MAX_RETRIES - 1
    THEN [g EXCEPT !.pc = "sleeping"]
  ELSE [g EXCEPT !.out = <<ErrorEvent("Max retries (" \o ToString(MAX_RETRIES)
                                      \o ") exceeded: " \o r.message),
                           Ev("agent_end")>>,
                 !.pc = "return"]

Creating(p) ==
  /\ Ready(p)
  /\ gen[p].pc = "creating"
  /\ \E r \in {CreateOk} \cup (IF used.fails < env.fails THEN env.errors ELSE {}) :
       /\ gen' = [gen EXCEPT ![p] =
            CreateResult([@ EXCEPT !.answers = Append(@, r),
                                   !.opened = IF r.kind = "ok" THEN messages ELSE @], r)]
       /\ used' = [used EXCEPT !.fails = IF r.kind = "ok" THEN @ ELSE @ + 1]
  /\ UNCHANGED <<env, fs, cmd, fr, closed, inbox>>
  /\ UNCHANGED gatewayVars
  /\ UNCHANGED <<running, stop_pc, model, messages, abort_event, steer_queue, events, backend, abortAt>>

NextBackoffSame(backoff) == backoff

(* backoff = min(backoff * 2, _MAX_BACKOFF), client.py 579 *)
NextBackoff(backoff) == IF 2 * backoff < MAX_BACKOFF THEN 2 * backoff ELSE MAX_BACKOFF

(* client.py 577-579, then the next attempt, 551-553 *)
SleepDone(p) ==
  /\ Ready(p)
  /\ gen[p].pc = "sleeping"
  /\ gen' = [gen EXCEPT ![p].slept = Append(@, gen[p].backoff),
                        ![p].backoff = NextBackoff(@),
                        ![p].attempt = @ + 1,
                        ![p].pc = "creating"]
  /\ backend' = Append(backend, StreamCall(p, messages))
  /\ UNCHANGED <<env, fs, cmd, fr, closed, inbox>>
  /\ UNCHANGED gatewayVars
  /\ UNCHANGED <<running, stop_pc, model, messages, abort_event, steer_queue, events, used, abortAt>>

OnChunkPrepends(g, c, aborted) ==
  IF aborted
    THEN [g EXCEPT !.nread = @ + 1, !.stream = Append(@, c),
                   !.out = <<Ev("turn_end"), Ev("agent_end")>>,
                   !.pc = "return"]
  ELSE IF ~c.choices
    THEN [g EXCEPT !.nread = @ + 1, !.stream = Append(@, c)]
  ELSE [g EXCEPT !.nread = @ + 1, !.stream = Append(@, c),
                 !.content_parts = c.content \o @,
                 !.out = IF c.content # ""
                           THEN <<AgentEvent("text_delta", "", "", c.content, "", FALSE)>>
                           ELSE <<>>,
                 !.tool_calls_by_index = MergeDeltas(@, c.tc),
                 !.finish_reason = IF c.finish # "" THEN c.finish ELSE @]

(* client.py 202-236: the stream delivers a chunk *)
OnChunk(g, c, aborted) ==
  IF aborted
    THEN [g EXCEPT !.nread = @ + 1, !.stream = Append(@, c),
                   !.out = <<Ev("turn_end"), Ev("agent_end")>>,
                   !.pc = "return"]
  ELSE IF ~c.choices
    THEN [g EXCEPT !.nread = @ + 1, !.stream = Append(@, c)]
  ELSE [g EXCEPT !.nread = @ + 1, !.stream = Append(@, c),
                 !.content_parts = @ \o c.content,
                 !.out = IF c.content # ""
                           THEN <<AgentEvent("text_delta", "", "", c.content, "", FALSE)>>
                           ELSE <<>>,
                 !.tool_calls_by_index = MergeDeltas(@, c.tc),
                 !.finish_reason = IF c.finish # "" THEN c.finish ELSE @]

ReadChunk(p) ==
  /\ Ready(p)
  /\ gen[p].pc = "reading"
  /\ used.chunks < env.chunks
  /\ \E c \in env.alphabet : gen' = [gen EXCEPT ![p] = OnChunk(@, c, abort_event)]
  /\ used' = [used EXCEPT !.chunks = @ + 1]
  /\ UNCHANGED <<env, fs, cmd, fr, closed, inbox>>
  /\ UNCHANGED gatewayVars
  /\ UNCHANGED <<running, stop_pc, model, messages, abort_event, steer_queue, events, backend, abortAt>>

StreamErrorEvents ==
  <<ErrorEvent("Stream error: " \o ConnectionError.message), Ev("agent_end")>>

StreamErrorAppends(p) ==
  /\ Ready(p)
  /\ gen[p].pc = "reading"
  /\ used.fails < env.fails
  /\ gen' = [gen EXCEPT ![p].out = StreamErrorEvents, ![p].pc = "return",
                        ![p].failed = TRUE]
  /\ messages' = Append(messages, AssistantMsg(p, gen[p].content_parts, <<>>))
  /\ used' = [used EXCEPT !.fails = @ + 1]
  /\ UNCHANGED <<env, fs, cmd, fr, closed, inbox>>
  /\ UNCHANGED gatewayVars
  /\ UNCHANGED <<running, stop_pc, model, abort_event, steer_queue, events, backend, abortAt>>

(* client.py 237-240: the stream raises APIConnectionError or APIStatusError *)
StreamError(p) ==
  /\ Ready(p)
  /\ gen[p].pc = "reading"
  /\ used.fails < env.fails
  /\ gen' = [gen EXCEPT ![p].out = StreamErrorEvents, ![p].pc = "return",
                        ![p].failed = TRUE]
  /\ used' = [used EXCEPT !.fails = @ + 1]
  /\ UNCHANGED <<env, fs, cmd, fr, closed, inbox>>
  /\ UNCHANGED gatewayVars
  /\ UNCHANGED <<running, stop_pc, model, messages, abort_event, steer_queue, events, backend, abortAt>>

(* A variant of the break test that does not look at finish_reason. *)
FinishedByCallsOnly(g) == sorted_tool_calls(g.tool_calls_by_index) = <<>>

(* client.py 242-265 and the head of the tool loop: the stream is exhausted *)
Finished(g) ==
  sorted_tool_calls(g.tool_calls_by_index) = <<>> \/ g.finish_reason # "tool_calls"

StreamEnd(p) ==
  /\ Ready(p)
  /\ gen[p].pc = "reading"
  /\ LET calls == sorted_tool_calls(gen[p].tool_calls_by_index)
     IN /\ messages' = Append(messages, AssistantMsg(p, gen[p].content_parts, calls))
        /\ gen' = [gen EXCEPT ![p] =
             IF Finished(@)
               THEN [@ EXCEPT !.out = <<Ev("turn_end"), Ev("agent_end")>>, !.pc = "return"]
               ELSE NextTool(@, calls, abort_event)]
  /\ UNCHANGED <<env, fs, cmd, fr, closed, inbox>>
  /\ UNCHANGED gatewayVars
  /\ UNCHANGED <<running, stop_pc, model, abort_event, steer_queue, events, backend, used, abortAt>>

(* client.py 288-291: after the tool_start yield, the registry lookup *)
ToolExec(p) ==
  /\ Ready(p)
  /\ gen[p].pc = "tool_exec"
  /\ LET g == gen[p]
         text == "Unknown tool: " \o g.tc.name
     IN gen' = [gen EXCEPT ![p] =
          IF g.tc.name \in REGISTERED_TOOLS
            THEN [g EXCEPT !.pc = "tool_running"]
            ELSE [g EXCEPT !.result_text = text,
                           !.is_error = TRUE,
                           !.out = <<AgentEvent("tool_end", g.tc.id, g.tc.name, text, "", TRUE)>>,
                           !.pc = "tool_done"]]
  /\ UNCHANGED <<env, fs, cmd, fr, closed, inbox>>
  /\ UNCHANGED gatewayVars
  /\ UNCHANGED <<running, stop_pc, model, messages, abort_event, steer_queue, events, backend, used, abortAt>>

(* client.py 293-314: tool.execute returns or raises *)
ToolResult(outcome) ==
  CASE outcome = "ok" -> [output |-> "output", is_error |-> FALSE]
    [] outcome = "is_error" -> [output |-> "failed", is_error |-> TRUE]
    [] OTHER -> [output |-> "Tool execution error", is_error |-> TRUE]

ToolReturns(p) ==
  /\ Ready(p)
  /\ gen[p].pc = "tool_running"
  /\ \E outcome \in ToolOutcomes :
       gen' = [gen EXCEPT ![p].result_text = ToolResult(outcome).output,
                          ![p].is_error = ToolResult(outcome).is_error,
                          ![p].out = <<AgentEvent("tool_end", gen[p].tc.id, gen[p].tc.name,
                                                  ToolResult(outcome).output, "",
                                                  ToolResult(outcome).is_error)>>,
                          ![p].pc = "tool_done"]
  /\ UNCHANGED <<env, fs, cmd, fr, closed, inbox>>
  /\ UNCHANGED gatewayVars
  /\ UNCHANGED <<running, stop_pc, model, messages, abort_event, steer_queue, events, backend, used, abortAt>>

(* client.py 328-332, then the next tool call or 335-336 *)
ToolDone(p) ==
  /\ Ready(p)
  /\ gen[p].pc = "tool_done"
  /\ messages' = Append(messages, ToolMsg(p, gen[p].tc.id, gen[p].result_text))
  /\ gen' = [gen EXCEPT ![p] = NextTool(@, @.todo, abort_event)]
  /\ UNCHANGED <<env, fs, cmd, fr, closed, inbox>>
  /\ UNCHANGED gatewayVars
  /\ UNCHANGED <<running, stop_pc, model, abort_event, steer_queue, events, backend, used, abortAt>>

(* The generator returns: "async for" ends and "async with" releases. *)
Return(p) ==
  /\ Ready(p)
  /\ gen[p].pc = "return"
  /\ gen' = [gen EXCEPT ![p].pc = "done"]
  /\ Release(p, [h EXCEPT ![p].pc = "done"])
  /\ UNCHANGED <<env, fs, cmd, fr, clients, closed, pending, inbox, requested>>
  /\ UNCHANGED <<running, stop_pc, model, messages, abort_event, steer_queue, events, backend, used, abortAt>>

(* session.py 358-360: the generator raised; the handler broadcasts an error. *)
Raised(p) ==
  /\ Ready(p)
  /\ gen[p].pc = "raise"
  /\ gen' = [gen EXCEPT ![p].pc = "done"]
  /\ h' = [h EXCEPT ![p].pc = "error"]
  /\ pending' = [pending EXCEPT ![p] = broadcast(error_message(gen[p].exc))]
  /\ UNCHANGED <<env, fs, cmd, fr, clients, closed, lockHolder, waiters, inbox, requested, admitted>>
  /\ UNCHANGED <<running, stop_pc, model, messages, abort_event, steer_queue, events, backend, used, abortAt>>

(* The error broadcast is over: "async with" releases. *)
ErrorDone(p) ==
  /\ h[p].pc = "error"
  /\ BroadcastDone(p)
  /\ Release(p, [h EXCEPT ![p].pc = "done"])
  /\ UNCHANGED <<env, fs, cmd, fr, clients, closed, pending, inbox, requested>>
  /\ UNCHANGED agentVars

---------------------------------------------------------------------------
(* Specifications *)

AgentStep(p) ==
  \/ Start(p) \/ Yield(p) \/ LoopTop(p) \/ Creating(p)
  \/ ReadChunk(p) \/ StreamError(p) \/ StreamEnd(p)
  \/ Return(p)

ToolStep(p) == ToolExec(p) \/ ToolReturns(p) \/ ToolDone(p) \/ Raised(p) \/ ErrorDone(p)

CompactStep(p) == Compact(p) \/ Compacting(p) \/ Open(p)

GatewayStep(p, cs) ==
  \/ PromptArrive(p) \/ Acquire(p)
  \/ \E c \in cs : SendOk(p, c)

Next ==
  \/ \E p \in 1..GwPrompts : GatewayStep(p, GwClients) \/ AgentStep(p)
  \/ \E p \in 1..GwPrompts : \E c \in GwClients : SendFail(p, c)
  \/ \E c \in GwClients : ConnClose(c)
  \/ Abort

NextAgent ==
  \/ \E p \in 1..1 :
       \/ GatewayStep(p, AgClients) \/ AgentStep(p) \/ SleepDone(p)
       \/ ToolStep(p) \/ CompactStep(p)
  \/ Abort
  \/ AgentStart \/ StopBegin \/ StopEnd
  \/ \E c \in AgClients : \E f \in Frames : FrameArrive(c, f)

NextFifo ==
  \E p \in 1..FifoPrompts :
    \/ GatewayStep(p, AgClients)
    \/ Start(p) \/ Yield(p) \/ LoopTop(p) \/ Creating(p) \/ StreamEnd(p) \/ Return(p)

NextFrames ==
  \/ \E p \in 1..1 :
       \/ PromptArrive(p) \/ Acquire(p)
       \/ Start(p) \/ Yield(p) \/ LoopTop(p) \/ Creating(p) \/ StreamEnd(p) \/ Return(p)
  \/ \E i \in 1..(1 + FrFrames) : \E c \in GwClients : SendOk(i, c)
  \/ \E c \in GwClients : \E f \in Frames : FrameArrive(c, f)

----------------------------------------------------------------------------
(* The /compact and /reload steers (agent/client.py steer, gateway/session.py *)
(* _handle_reload)                                                            *)

DEFAULT_SYSTEM_PROMPT ==
  "You are a helpful coding assistant. Use the provided tools to help the user with their tasks."

(* The session snapshot that reload_session reads, if the file exists. *)
NoSessionFile == [exists |-> FALSE, model |-> "", system_prompt |-> "", messages |-> <<>>]
SessionFile(m, prompt, ms) ==
  [exists |-> TRUE, model |-> m, system_prompt |-> prompt, messages |-> ms]

(* A prompt with a tool call while a /compact steer arrives; the prompt is  *)
(* long enough for _find_cut_point to cut before it.                        *)
CompactCommandEnv ==
  [prompts |-> 1, clients |-> AgClients, sizes |-> {Chars.medium}, history |-> Earlier,
   alphabet |-> {Chunk("", <<TcDelta(0, "c1", "bash", "{}")>>, "tool_calls")}
                  \cup TextChunks,
   chunks |-> AgSteerChunks, fails |-> 1, aborts |-> 0, closes |-> 0,
   errors |-> {},
   started |-> TRUE, stops |-> 0, frames |-> {}, nframes |-> CmdFrames,
   commands |-> {SteerFrame("/compact")}, file |-> NoSessionFile]

(* A prompt with a text answer, /model steers and a /reload steer; the      *)
(* agent that run() started has read the session file, if there is one.     *)
ReloadCommandEnv(file) ==
  [prompts |-> 1, clients |-> AgClients, sizes |-> {Chars.small},
   history |-> file.messages,
   alphabet |-> TextChunks,
   chunks |-> GwChunks, fails |-> 0, aborts |-> 0, closes |-> 0,
   errors |-> {},
   started |-> TRUE, stops |-> 0, frames |-> {SteerFrame("/model " \o OTHER_MODEL)},
   nframes |-> CmdFrames,
   commands |-> {SteerFrame(" /reload")}, file |-> file]

CommandEnvs ==
  {CompactCommandEnv, ReloadCommandEnv(NoSessionFile),
   ReloadCommandEnv(SessionFile(DEFAULT_MODEL, DEFAULT_SYSTEM_PROMPT, Earlier))}

InitCommands == \E e \in CommandEnvs : InitWith(e)

(* A prompt() generator has been started and has not finished. *)
TurnInProgress == \E p \in Prompts : gen[p].pc \notin {"init", "done"}

reload_start == [type |-> "reload_start"]
reload_end(success, message) ==
  [type |-> "reload_end", success |-> success, message |-> message]

(* The frame record of a command handler, like that of FrameArrive. *)
CommandFrame(c, f, exc) ==
  [c |-> c, frame |-> f, calls |-> <<"steer">>, exc |-> exc,
   in_tool |-> \E p \in Prompts : gen[p].pc = "tool_running"]

(* session.py 87-98 and client.py 341-346: a steer frame with /reload goes   *)
(* to _handle_reload, which announces reload_start; one with /compact goes   *)
(* to AgentClient.steer, which yields compaction_start.                      *)
CommandArrive(c, f) ==
  /\ c \in clients \ closed
  /\ f \in env.commands
  /\ cmd.kind = ""
  /\ cmd.agent = 0
  /\ Len(fr) < env.nframes
  /\ LET id == Len(fr) + 1
         text == strip(from_json(f).message)
     IN IF text = "/reload"
          THEN /\ pending' = [pending EXCEPT ![FrameId(id)] = broadcast(reload_start)]
               /\ cmd' = [cmd EXCEPT !.kind = "reload", !.id = id, !.pc = "announce"]
               /\ fr' = Append(fr, CommandFrame(c, f, ""))
        ELSE IF ~running
          THEN /\ cmd' = [cmd EXCEPT !.kind = "compact", !.id = id, !.pc = "done"]
               /\ fr' = Append(fr, CommandFrame(c, f, "AgentNotRunning"))
               /\ UNCHANGED pending
        ELSE /\ pending' = [pending EXCEPT ![FrameId(id)] =
                              broadcast(serialize_event(Ev("compaction_start")))]
             /\ cmd' = [cmd EXCEPT !.kind = "compact", !.id = id, !.pc = "start"]
             /\ fr' = Append(fr, CommandFrame(c, f, ""))
  /\ UNCHANGED <<env, fs, clients, closed, lockHolder, waiters, h, inbox, requested, admitted>>
  /\ UNCHANGED agentVars

(* client.py 348 into _compact, 463-486 up to the await of the summary call *)
SteerCompact ==
  /\ cmd.kind = "compact"
  /\ cmd.pc = "start"
  /\ BroadcastDone(FrameId(cmd.id))
  /\ LET cut == find_cut_point(messages)
         tokens_before == estimate_tokens(messages)
     IN IF cut <= 0
          THEN /\ pending' = [pending EXCEPT ![FrameId(cmd.id)] =
                    broadcast(serialize_event(
                      AgentEvent("compaction_end", "", "", "(Nothing to compact)", "", FALSE)))]
               /\ cmd' = [cmd EXCEPT !.pc = "done", !.tokens_before = tokens_before]
               /\ UNCHANGED backend
          ELSE /\ cmd' = [cmd EXCEPT !.pc = "compacting",
                                     !.cut = cut,
                                     !.kept = SubSeq(messages, cut + 1, Len(messages)),
                                     !.tokens_before = tokens_before,
                                     !.in_turn = TurnInProgress]
               /\ backend' = Append(backend, SummaryCall(0, SubSeq(messages, 1, cut)))
               /\ UNCHANGED pending
  /\ UNCHANGED <<env, fs, fr, clients, closed, lockHolder, waiters, h, inbox, requested,
                 admitted>>
  /\ UNCHANGED <<running, stop_pc, model, messages, abort_event, steer_queue, gen, events,
                 used, abortAt>>

(* client.py 487-495 and 349-361: the summary call returns or raises *)
SteerCompacting ==
  /\ cmd.kind = "compact"
  /\ cmd.pc = "compacting"
  /\ \E ok \in {TRUE} \cup (IF used.fails < env.fails THEN {FALSE} ELSE {}) :
       IF ok
         THEN /\ messages' =
                   <<UserMsg(0, "[Previous conversation summary]", Chars.small),
                     AssistantMsg(0, "Understood.", <<>>)>> \o cmd.kept
              /\ pending' = [pending EXCEPT ![FrameId(cmd.id)] =
                   broadcast(serialize_event(
                     AgentEvent("compaction_end", "", "", "summary", "", FALSE)))]
              /\ UNCHANGED used
         ELSE /\ pending' = [pending EXCEPT ![FrameId(cmd.id)] =
                   broadcast(serialize_event(
                     AgentEvent("compaction_end", "", "", "", "Compaction failed", FALSE)))]
              /\ used' = [used EXCEPT !.fails = @ + 1]
              /\ UNCHANGED messages
  /\ cmd' = [cmd EXCEPT !.pc = "done"]
  /\ UNCHANGED <<env, fs, fr, clients, closed, lockHolder, waiters, h, inbox, requested,
                 admitted>>
  /\ UNCHANGED <<running, stop_pc, model, abort_event, steer_queue, gen, events, backend,
                 abortAt>>

(* client.py 60-84, AgentClient.__init__ *)
AgentClient(m, prompt) ==
  [model |-> IF m = "" THEN DEFAULT_MODEL ELSE m,
   system_prompt |-> IF prompt = "" THEN DEFAULT_SYSTEM_PROMPT ELSE prompt,
   messages |-> <<>>, running |-> FALSE, client |-> FALSE]

(* client.py 131-144, reload_session of an agent: the snapshot, when the    *)
(* file exists, replaces model, system prompt and conversation.             *)
reload_session_file(agent, file) ==
  IF file.exists
    THEN [agent EXCEPT !.model = file.model, !.system_prompt = file.system_prompt,
                       !.messages = file.messages]
    ELSE agent

(* client.py 90-103, start() of an agent *)
start(agent, file) ==
  reload_session_file([agent EXCEPT !.client = TRUE, !.messages = <<>>, !.running = TRUE],
                      file)

(* The agent that run() built, as a record. *)
OldAgent ==
  [model |-> model, system_prompt |-> DEFAULT_SYSTEM_PROMPT, messages |-> messages,
   running |-> running, client |-> running]

(* session.py 121-149: the state is saved, the modules are reloaded, the    *)
(* new agent is built and started and is given the saved conversation;      *)
(* then old_agent.stop() sets the abort flag and awaits the close.          *)
ReloadBegin ==
  /\ cmd.kind = "reload"
  /\ cmd.pc = "announce"
  /\ BroadcastDone(FrameId(cmd.id))
  /\ LET saved == OldAgent
         new_agent == start(AgentClient(saved.model, saved.system_prompt), env.file)
     IN cmd' = [cmd EXCEPT !.pc = "stopping",
                           !.new = [new_agent EXCEPT !.messages = saved.messages],
                           !.saved = saved,
                           !.in_turn = TurnInProgress]
  /\ abort_event' = TRUE
  /\ stop_pc' = "closing"
  /\ UNCHANGED <<env, fs, fr, clients, closed, lockHolder, waiters, h, pending, inbox,
                 requested, admitted>>
  /\ UNCHANGED <<running, model, messages, steer_queue, gen, events, backend, used, abortAt>>

(* session.py 149-150 and client.py 109-110: the close is over, the old     *)
(* agent is stopped and Session.agent becomes the new agent.                *)
ReloadSwap ==
  /\ cmd.kind = "reload"
  /\ cmd.pc = "stopping"
  /\ running' = FALSE
  /\ stop_pc' = "done"
  /\ cmd' = [cmd EXCEPT !.pc = "build", !.agent = 1, !.old = OldAgent]
  /\ UNCHANGED <<env, fs, fr, clients, closed, lockHolder, waiters, h, pending, inbox,
                 requested, admitted>>
  /\ UNCHANGED <<model, messages, abort_event, steer_queue, gen, events, backend, used,
                 abortAt>>

(* session.py 156-187: the web package is rebuilt, or the build fails, and  *)
(* reload_end is broadcast.                                                  *)
ReloadEnd ==
  /\ cmd.kind = "reload"
  /\ cmd.pc = "build"
  /\ \E built \in BOOLEAN :
       pending' = [pending EXCEPT ![FrameId(cmd.id)] =
         broadcast(reload_end(built, IF built THEN "Reload complete"
                                              ELSE "Web build failed: error"))]
  /\ cmd' = [cmd EXCEPT !.pc = "done"]
  /\ UNCHANGED <<env, fs, fr, clients, closed, lockHolder, waiters, h, inbox, requested,
                 admitted>>
  /\ UNCHANGED agentVars

(* The steer frames that carry a command. *)
CompactFrames == {SteerFrame("/compact")}
CommandFrames == CompactFrames \cup {SteerFrame(" /reload")}

(* Prompts, aborts and other frames are followed on the agent that run()    *)
(* built: a prompt() call or a frame that would reach the new agent is not. *)
NextCommands ==
  \/ \E p \in 1..1 :
       \/ GatewayStep(p, AgClients)
       \/ cmd.agent = 0 /\ Start(p)
       \/ Yield(p) \/ LoopTop(p) \/ Creating(p) \/ ReadChunk(p) \/ StreamEnd(p) \/ Return(p)
       \/ ToolExec(p) \/ ToolReturns(p) \/ ToolDone(p)
  \/ \E i \in 2..(1 + CmdFrames) : \E c \in AgClients : SendOk(i, c)
  \/ \E c \in AgClients : \E f \in Frames : cmd.agent = 0 /\ FrameArrive(c, f)
  \/ \E c \in AgClients : \E f \in CommandFrames : CommandArrive(c, f)
  \/ SteerCompact \/ SteerCompacting
  \/ ReloadBegin \/ ReloadSwap \/ ReloadEnd

---------------------------------------------------------------------------
(* /compact on any conversation: _find_cut_point and _compact *)

MaxMsgs == 3        \* messages of a conversation in a behaviour of SpecCompaction

(* The messages a conversation is made of: short and long User messages and *)
(* Tool-Results, Assistant messages with and without a tool call.           *)
MessageShapes ==
  {UserMsg(0, "u", Chars.small), UserMsg(0, "u", Chars.medium),
   AssistantMsg(0, "a", <<>>),
   AssistantMsg(0, "", <<[id |-> "c1", name |-> "bash", arguments |-> "{}"]>>),
   ToolMsg(0, "c1", "output"),
   [ToolMsg(0, "c1", "output") EXCEPT !.chars = Chars.medium]}

Conversations == UNION {[1..n -> MessageShapes] : n \in 0..MaxMsgs}

(* An agent whose conversation is ms; no prompt arrives. *)
CutEnv(ms) == [CompactCommandEnv EXCEPT !.history = ms]

InitCompaction == \E ms \in Conversations : InitWith(CutEnv(ms))

NextCompaction ==
  \/ \E c \in AgClients : \E f \in CompactFrames : CommandArrive(c, f)
  \/ \E i \in 2..(1 + CmdFrames) : \E c \in AgClients : SendOk(i, c)
  \/ SteerCompact
  \/ SteerCompacting

----------------------------------------------------------------------------
(* The hash-keyed file tools (agent/tools.py) *)

(* str.encode() of the characters that occur in the files below. *)
Ord(c) ==
  CASE c = "a" -> 97
    [] c = "b" -> 98
    [] c = "x" -> 120
    [] c = "y" -> 121
    [] c = "1" -> 49
    [] c = "2" -> 50
    [] c = " " -> 32
    [] c = "\n" -> 10

(* A 32-bit word as the set of its one bits, bit 0 the least significant. *)
Word32 == 0..31
Bits(n, width) == {i \in 0..(width - 1) : (n \div (2 ^ i)) % 2 = 1}
Xor(a, b) == (a \ b) \cup (b \ a)
ShiftRight(a) == {i - 1 : i \in a \ {0}}

RECURSIVE Value(_)
Value(bits) ==
  IF bits = {} THEN 0
  ELSE LET i == CHOOSE j \in bits : TRUE IN 2 ^ i + Value(bits \ {i})

(* The reflected CRC-32 polynomial 0xEDB88320 of zlib. *)
CRC_POLY == {31, 30, 29, 27, 26, 24, 23, 21, 20, 19, 15, 9, 8, 5}

RECURSIVE crc_shift(_, _)
crc_shift(crc, n) ==
  IF n = 0 THEN crc
  ELSE crc_shift(IF 0 \in crc THEN Xor(ShiftRight(crc), CRC_POLY) ELSE ShiftRight(crc),
                 n - 1)

RECURSIVE crc_update(_, _)
crc_update(crc, text) ==
  IF text = "" THEN crc
  ELSE crc_update(crc_shift(Xor(crc, Bits(Ord(SubSeq(text, 1, 1)), 8)), 8),
                  SubSeq(text, 2, Len(text)))

(* zlib.crc32 *)
crc32(text) == Xor(crc_update(Word32, text), Word32)

(* format(n, 'x') *)
HexDigit(d) == SubSeq("0123456789abcdef", d + 1, d + 1)

RECURSIVE format_x(_)
format_x(n) == IF n < 16 THEN HexDigit(n) ELSE format_x(n \div 16) \o HexDigit(n % 16)

(* tools.py 69-72, _hash_line: crc32 & 0xFFFF in hexadecimal, cut to two characters *)
hash_line(content) ==
  LET hex == format_x(Value(crc32(content) \cap 0..15))
  IN SubSeq(hex, 1, IF Len(hex) < 2 THEN Len(hex) ELSE 2)

(* Python's truth value of args.get(name, default): a missing member, an    *)
(* empty string and an empty list are false.                                *)
Falsy(v) ==
  \/ v.t = "missing"
  \/ v.t = "str" /\ v.v = ""
  \/ v.t = "list" /\ Len(v.v) = 0

(* args.get(name, "") for a string member *)
GetStr(v) == IF v.t = "missing" THEN "" ELSE v.v

(* ToolResult(output=..., is_error=...) *)
Result(output, is_error) == [output |-> output, is_error |-> is_error]

(* A file of the disk: Path.read_text raises FileNotFoundError when it does *)
(* not exist.                                                               *)
File(text) == [exists |-> TRUE, text |-> text]
NoFile == [exists |-> FALSE, text |-> ""]

(* c in s, s.split(c), s.endswith(c) for a one-character c, and "\n".join *)
RECURSIVE Find(_, _, _)
Find(s, c, i) ==
  IF i > Len(s) THEN 0
  ELSE IF SubSeq(s, i, i) = c THEN i
  ELSE Find(s, c, i + 1)

Contains(s, c) == Find(s, c, 1) > 0

RECURSIVE split(_, _)
split(s, c) ==
  LET k == Find(s, c, 1)
  IN IF k = 0 THEN <<s>>
     ELSE <<SubSeq(s, 1, k - 1)>> \o split(SubSeq(s, k + 1, Len(s)), c)

endswith(s, c) == s # "" /\ SubSeq(s, Len(s), Len(s)) = c

RECURSIVE join(_, _)
join(sep, parts) ==
  IF parts = <<>> THEN ""
  ELSE IF Len(parts) = 1 THEN parts[1]
  ELSE parts[1] \o sep \o join(sep, Tail(parts))

(* str.splitlines(keepends=True); "\n" is the only line boundary that       *)
(* occurs in the files below, and read_text has translated "\r" away.       *)
RECURSIVE splitlines(_)
splitlines(text) ==
  LET k == Find(text, "\n", 1)
  IN IF text = "" THEN <<>>
     ELSE IF k = 0 THEN <<text>>
     ELSE <<SubSeq(text, 1, k)>> \o splitlines(SubSeq(text, k + 1, Len(text)))

(* line.rstrip('\n\r') *)
RECURSIVE rstrip_newline(_)
rstrip_newline(line) ==
  IF line # "" /\ SubSeq(line, Len(line), Len(line)) \in {"\n", "\r"}
    THEN rstrip_newline(SubSeq(line, 1, Len(line) - 1))
    ELSE line

(* lines[a:b] of Python for 0 <= a, with 0-based bounds *)
Slice(s, a, b) ==
  LET hi == IF b > Len(s) THEN Len(s) ELSE b
  IN IF a >= hi THEN <<>> ELSE SubSeq(s, a + 1, hi)

(* re.match(r'^(\d+):([0-9a-f]+)$', ref): the groups, or no match. "$" also *)
(* matches before one trailing newline.                                     *)
Digits == {"0", "1", "2", "3", "4", "5", "6", "7", "8", "9"}
HexChars == Digits \cup {"a", "b", "c", "d", "e", "f"}

AllIn(s, chars) == s # "" /\ \A i \in 1..Len(s) : SubSeq(s, i, i) \in chars

DigitValue(c) == Find("0123456789", c, 1) - 1

RECURSIVE int(_)
int(s) ==
  IF Len(s) = 1 THEN DigitValue(s)
  ELSE 10 * int(SubSeq(s, 1, Len(s) - 1)) + DigitValue(SubSeq(s, Len(s), Len(s)))

match_ref(ref) ==
  LET s == IF endswith(ref, "\n") THEN SubSeq(ref, 1, Len(ref) - 1) ELSE ref
      k == Find(s, ":", 1)
      line == SubSeq(s, 1, k - 1)
      hash == SubSeq(s, k + 1, Len(s))
  IN IF k > 0 /\ AllIn(line, Digits) /\ AllIn(hash, HexChars)
       THEN [ok |-> TRUE, line |-> int(line), hash |-> hash]
       ELSE [ok |-> FALSE, line |-> 0, hash |-> ""]

(* tools.py 160-201, ReadTool.execute; the output is the results dict that  *)
(* json.dumps renders, one entry per path.                                  *)
numbered_lines(text, offset, limit) ==
  LET all == splitlines(text)
      first == IF offset - 1 > 0 THEN offset - 1 ELSE 0
      lines == IF limit >= 0 THEN Slice(all, first, first + limit)
                             ELSE Slice(all, first, Len(all))
  IN [i \in DOMAIN lines |->
        LET content == rstrip_newline(lines[i])
        IN ToString(first + i) \o ":" \o hash_line(content) \o "|" \o content]

read_entry(disk, file_path, offset, limit) ==
  IF file_path = "" THEN "Error: Empty file path provided."
  ELSE IF file_path \notin DOMAIN disk \/ ~disk[file_path].exists
    THEN "Error: File not found: " \o file_path
  ELSE join("\n", numbered_lines(disk[file_path].text, offset, limit))

ReadTool(args, disk) ==
  IF Falsy(args.file_paths)
    THEN [result |-> Result("No file_paths provided.", TRUE), disk |-> disk,
          results |-> <<>>]
    ELSE [result |-> Result("results", FALSE), disk |-> disk,
          results |-> [i \in DOMAIN args.file_paths.v |->
                         read_entry(disk, args.file_paths.v[i], args.offset, args.limit)]]

(* tools.py 225-237, WriteTool.execute; Path() of a value that is no string  *)
(* raises TypeError, which the handler for OSError does not catch.          *)
WriteTool(args, disk) ==
  LET file_path == GetStr(args.file_path)
      content == GetStr(args.content)
  IN IF Falsy(args.file_path)
       THEN [result |-> Result("No file_path provided.", TRUE), disk |-> disk,
             raised |-> ""]
     ELSE IF args.file_path.t # "str"
       THEN [result |-> Result("", FALSE), disk |-> disk, raised |-> "TypeError"]
     ELSE [result |-> Result("Wrote " \o ToString(Len(content)) \o " bytes to "
                               \o file_path, FALSE),
           disk |-> [disk EXCEPT ![file_path] = File(content)], raised |-> ""]

(* The index (1-based) of the first non-empty line from position i on whose *)
(* number is line_num and whose hash is target, or 0: the loops of          *)
(* tools.py 315-325 and 350-357.                                            *)
RECURSIVE find_line(_, _, _, _)
find_line(lines, line_num, target, i) ==
  IF i > Len(lines) THEN 0
  ELSE IF /\ rstrip_newline(lines[i]) # ""
          /\ i = line_num
          /\ hash_line(rstrip_newline(lines[i])) = target
    THEN i
  ELSE find_line(lines, line_num, target, i + 1)

(* tools.py 300-340: the range form "line:hash-line:hash" *)
edit_range(lines, hash_ref, new_text) ==
  LET parts == split(hash_ref, "-")
      start_match == match_ref(parts[1])
      end_match == match_ref(parts[2])
      start_idx == find_line(lines, start_match.line, start_match.hash, 1)
      end_idx == find_line(lines, end_match.line, end_match.hash, start_idx)
      piece == IF ~endswith(new_text, "\n") /\ endswith(lines[start_idx], "\n")
                 THEN new_text \o "\n" ELSE new_text
  IN IF Len(parts) # 2
       THEN Result("Invalid hash range format. Use 'line:hash' or 'start:end'.", TRUE)
     ELSE IF ~(Contains(parts[1], ":") /\ Contains(parts[2], ":"))
       THEN Result("Invalid range format. Use 'line:hash-line:hash'.", TRUE)
     ELSE IF ~start_match.ok \/ ~end_match.ok
       THEN Result("Invalid hash range format.", TRUE)
     ELSE IF start_idx = 0
       THEN Result("Start hash " \o parts[1] \o " not found in file.", TRUE)
     ELSE IF end_idx = 0
       THEN Result("End hash " \o parts[2] \o " not found in file.", TRUE)
     ELSE Result(join("", SubSeq(lines, 1, start_idx - 1) \o <<piece>>
                            \o SubSeq(lines, end_idx + 1, Len(lines))), FALSE)

(* tools.py 341-364: the single form "line:hash" *)
edit_single(lines, hash_ref, new_text) ==
  LET match == match_ref(hash_ref)
      idx == find_line(lines, match.line, match.hash, 1)
  IN IF ~match.ok
       THEN Result("Invalid hash format. Use 'line:hash'.", TRUE)
     ELSE IF idx = 0
       THEN Result("Hash " \o hash_ref
                     \o " not found in file. File may have changed since read.", TRUE)
     ELSE Result(join("", SubSeq(lines, 1, idx - 1)
                            \o <<new_text \o (IF endswith(lines[idx], "\n") THEN "\n" ELSE "")>>
                            \o SubSeq(lines, idx + 1, Len(lines))), FALSE)

(* tools.py 265-376, EditTool.execute: new_content, or the error result *)
new_content(text, hash_ref, new_text) ==
  IF Contains(hash_ref, "-") /\ Contains(hash_ref, ":")
    THEN edit_range(splitlines(text), hash_ref, new_text)
  ELSE IF Contains(hash_ref, ":")
    THEN edit_single(splitlines(text), hash_ref, new_text)
  ELSE Result("Invalid hash format. Use 'line:hash' or 'start:end'.", TRUE)

EditTool(args, disk) ==
  LET file_path == GetStr(args.file_path)
      hash_ref == GetStr(args.hash)
      new_text == GetStr(args.new_text)
      edited == new_content(disk[file_path].text, hash_ref, new_text)
  IN IF Falsy(args.file_path)
       THEN [result |-> Result("No file_path provided.", TRUE), disk |-> disk]
     ELSE IF Falsy(args.hash)
       THEN [result |-> Result("No hash provided. Use format 'line:hash' (e.g., '42:ab') or 'start:end' range.", TRUE),
             disk |-> disk]
     ELSE IF Falsy(args.new_text)
       THEN [result |-> Result("No new_text provided.", TRUE), disk |-> disk]
     ELSE IF file_path \notin DOMAIN disk \/ ~disk[file_path].exists
       THEN [result |-> Result("File not found: " \o file_path, TRUE), disk |-> disk]
     ELSE IF edited.is_error
       THEN [result |-> edited, disk |-> disk]
     ELSE [result |-> Result("Edit applied successfully.", FALSE),
           disk |-> [disk EXCEPT ![file_path] = File(edited.output)]]


(* tools.py 101-128, BashTool.execute: without a command no process is      *)
(* started; exit is the exit status of the process.                         *)
BashTool(args, exit) ==
  IF Falsy(args.command)
    THEN [result |-> Result("No command provided.", TRUE), started |-> 0]
    ELSE [result |-> Result(IF exit = 0 THEN "stdout"
                                        ELSE "Exit code: " \o ToString(exit) \o "\nstdout",
                            exit # 0),
          started |-> 1]

(* tools.py 396-436, SearchWebTool.execute: without a query no request is made *)
SearchWebTool(args, ok) ==
  IF Falsy(args.query)
    THEN [result |-> Result("No query provided.", TRUE), started |-> 0]
    ELSE [result |-> IF ok THEN Result("No results found.", FALSE)
                           ELSE Result("Failed to search: error", TRUE),
          started |-> 1]

(* canvas_tool.py 51-84, CanvasTool.execute; page is "self._page is not None" *)
CanvasTool(args, page) ==
  LET action == GetStr(args.action)
  IN CASE action = "render" ->
            [result |-> Result("Canvas updated with HTML content.", FALSE), page |-> TRUE]
       [] action = "navigate" ->
            IF Falsy(args.url)
              THEN [result |-> Result("No url provided.", TRUE), page |-> page]
              ELSE [result |-> Result("Canvas navigated to " \o GetStr(args.url), FALSE),
                    page |-> TRUE]
       [] action \in {"execute_js", "screenshot"} ->
            IF ~page
              THEN [result |-> Result("No canvas open.", TRUE), page |-> page]
              ELSE [result |-> Result("undefined", FALSE), page |-> page]
       [] action = "dismiss" ->
            [result |-> Result("Canvas dismissed.", FALSE), page |-> FALSE]
       [] OTHER ->
            [result |-> Result("Unknown canvas action: "
                                 \o (IF args.action.t = "missing" THEN "None" ELSE action),
                               TRUE),
             page |-> page]

----------------------------------------------------------------------------
(* Tool calls on one file *)

(* Bounds of the tool behaviours: the lines of the file, and how many read  *)
(* calls, other tool calls and external changes of the file are followed.   *)
MaxLines == 3
ToolReads == 1
ToolCalls == 1
ToolChanges == 1

(* "a" and "2" have the same hash ("be"). *)
LineContents == {"", "a", "2"}
Paths == {"/f"}

LineSeqs == UNION {[1..k -> LineContents] : k \in 0..MaxLines}

(* The lines joined by "\n", with or without a final newline. *)
Text(ls, final_newline) ==
  join("\n", ls) \o (IF final_newline /\ ls # <<>> THEN "\n" ELSE "")

Texts == {Text(ls, nl) : ls \in LineSeqs, nl \in BOOLEAN}

NoToolCall == [tool |-> "", args |-> <<>>, result |-> Result("", FALSE), raised |-> "",
               before |-> <<>>, after |-> <<>>]

ToolsInit(file) ==
  [disk |-> [p \in Paths |-> file], page |-> FALSE, started |-> 0,
   read |-> "", read_disk |-> [p \in Paths |-> file], call |-> NoToolCall,
   reads |-> 0, calls |-> 0, changes |-> 0]

InitTools ==
  /\ InitSession(FifoEnv)
  /\ cmd = NoCommand
  /\ \E file \in {NoFile} \cup {File(t) : t \in Texts} : fs = ToolsInit(file)

(* What a call can have a side effect on. *)
World(s) == [disk |-> s.disk, page |-> s.page, started |-> s.started]

(* The record of a call: what it was given, what it returned or raised, and *)
(* the world before and after it.                                           *)
Called(tool, args, result, raised, after) ==
  [tool |-> tool, args |-> args, result |-> result, raised |-> raised,
   before |-> World(fs), after |-> World(after)]

OnlyTools == UNCHANGED <<cmd, env, clients, closed, lockHolder, waiters, h, pending, inbox, fr,
                         requested, admitted, running, stop_pc, model, messages,
                         abort_event, steer_queue, gen, events, backend, used, abortAt>>

ReadArgs ==
  [file_paths : {Missing, List(<<>>), List(<<"/f">>), List(<<"">>)},
   offset : {1, 2}, limit : {-1, 1}]

ToolRead ==
  /\ fs.reads < ToolReads
  /\ \E args \in ReadArgs :
       LET r == ReadTool(args, fs.disk)
       IN fs' = [fs EXCEPT !.read = IF r.results = <<>> THEN "" ELSE r.results[1],
                           !.read_disk = fs.disk,
                           !.call = Called("read", args, r.result, "", fs),
                           !.reads = @ + 1]
  /\ OnlyTools

(* The "<line>:<hash>" references of a read output. *)
Refs(output) ==
  LET entries == split(output, "\n")
  IN {SubSeq(entries[i], 1, Find(entries[i], "|", 1) - 1) :
        i \in {j \in DOMAIN entries : Contains(entries[j], "|")}}

(* The "<line>:<hash>-<line>:<hash>" ranges over the references of a read  *)
(* output, reversed ones included.                                          *)
Ranges(output) == {r1 \o "-" \o r2 : r1 \in Refs(output), r2 \in Refs(output)}

ToolEdit ==
  /\ fs.calls < ToolCalls
  /\ \E file_path \in {Missing, Str(""), Str("/f")} :
     \E hash \in {Missing, Str("")} \cup {Str(r) : r \in Refs(fs.read) \cup Ranges(fs.read)} :
     \E new_text \in {Missing, Str(""), Str("x"), Str("x\ny")} :
       LET args == [file_path |-> file_path, hash |-> hash, new_text |-> new_text]
           r == EditTool(args, fs.disk)
       IN fs' = [fs EXCEPT !.disk = r.disk,
                           !.call = Called("edit", args, r.result, "",
                                           [fs EXCEPT !.disk = r.disk]),
                           !.calls = @ + 1]
  /\ OnlyTools

ToolWrite ==
  /\ fs.calls < ToolCalls
  /\ \E file_path \in {Missing, Str(""), Str("/f"), List(<<"/f">>)} :
     \E content \in {Missing, Str(""), Str("x\n")} :
       LET args == [file_path |-> file_path, content |-> content]
           r == WriteTool(args, fs.disk)
       IN fs' = [fs EXCEPT !.disk = r.disk,
                           !.call = Called("write", args, r.result, r.raised,
                                           [fs EXCEPT !.disk = r.disk]),
                           !.calls = @ + 1]
  /\ OnlyTools

ToolBash ==
  /\ fs.calls < ToolCalls
  /\ \E command \in {Missing, Str(""), Str("ls")} : \E exit \in {0, 1} :
       LET args == [command |-> command]
           r == BashTool(args, exit)
       IN fs' = [fs EXCEPT !.started = @ + r.started,
                           !.call = Called("bash", args, r.result, "",
                                           [fs EXCEPT !.started = @ + r.started]),
                           !.calls = @ + 1]
  /\ OnlyTools

ToolSearchWeb ==
  /\ fs.calls < ToolCalls
  /\ \E query \in {Missing, Str(""), Str("tla")} : \E ok \in BOOLEAN :
       LET args == [query |-> query]
           r == SearchWebTool(args, ok)
       IN fs' = [fs EXCEPT !.started = @ + r.started,
                           !.call = Called("search_web", args, r.result, "",
                                           [fs EXCEPT !.started = @ + r.started]),
                           !.calls = @ + 1]
  /\ OnlyTools

ToolCanvas ==
  /\ fs.calls < ToolCalls
  /\ \E action \in {Missing, Str("")} \cup
                   {Str(a) : a \in {"render", "navigate", "execute_js", "screenshot",
                                    "dismiss", "zoom"}} :
     \E url \in {Missing, Str("http://x")} :
       LET args == [action |-> action, url |-> url]
           r == CanvasTool(args, fs.page)
       IN fs' = [fs EXCEPT !.page = r.page,
                           !.call = Called("canvas", args, r.result, "",
                                           [fs EXCEPT !.page = r.page]),
                           !.calls = @ + 1]
  /\ OnlyTools

(* Another program rewrites one line of the file with a different content. *)
ExternalChange ==
  /\ fs.changes < ToolChanges
  /\ \E p \in Paths : \E i \in 1..MaxLines : \E content \in LineContents :
       LET lines == splitlines(fs.disk[p].text)
       IN /\ fs.disk[p].exists
          /\ i <= Len(lines)
          /\ content # rstrip_newline(lines[i])
          /\ fs' = [fs EXCEPT
                      !.disk[p].text =
                         join("", [lines EXCEPT
                                     ![i] = content \o (IF endswith(@, "\n") THEN "\n" ELSE "")]),
                      !.changes = @ + 1]
  /\ OnlyTools

NextTools ==
  \/ ToolRead \/ ToolEdit \/ ToolWrite \/ ToolBash \/ ToolSearchWeb \/ ToolCanvas
  \/ ExternalChange

Spec == Init /\ [][Next]_vars
SpecFrames == InitFrames /\ [][NextFrames]_vars
SpecAgent == InitAgent /\ [][NextAgent]_vars
SpecFifo == InitFifo /\ [][NextFifo]_vars
SpecTools == InitTools /\ [][NextTools]_vars
SpecCommands == InitCommands /\ [][NextCommands]_vars
SpecCompaction == InitCompaction /\ [][NextCompaction]_vars

---------------------------------------------------------------------------
(* Connections that go away (server.py 87-100) *)

(* The first prompt comes from ws1, the later ones from one connection,     *)
(* ws1 or ws2; one connection closes.                                        *)
(* In the third behaviour the agent has not been started (server.run        *)
(* serves before agent.start() returns), so agent.prompt raises.            *)
DisconnectEnv(second, started) ==
  [prompts |-> GwPrompts, clients |-> GwClients, sizes |-> {Chars.small}, history |-> <<>>,
   alphabet |-> TextChunks,
   chunks |-> GwChunks, fails |-> GwFails, aborts |-> 0, closes |-> 1,
   errors |-> {},
   started |-> started, stops |-> 0, frames |-> {}, nframes |-> 0,
   senders |-> [p \in 1..GwPrompts |-> IF p = 1 THEN "ws1" ELSE second]]

DisconnectEnvs ==
  {DisconnectEnv("ws1", TRUE), DisconnectEnv("ws2", TRUE), DisconnectEnv("ws2", FALSE)}

InitDisconnect == \E e \in DisconnectEnvs : InitWith(e)

(* server.py 91-94: a prompt frame is read from a connection that the       *)
(* handler still iterates.                                                   *)
PromptFrom(p) ==
  /\ env.senders[p] \in clients
  /\ PromptArrive(p)

(* The handler tasks of connection c that are not done. *)
TasksOf(c) ==
  {p \in Prompts : env.senders[p] = c /\ h[p].pc \in {"echo", "wait", "run", "error"}}

LockKeptAfterCancel(holder, w, tasks) == holder

(* session.py 354: "async with" releases when CancelledError leaves it, and *)
(* the first waiter that is left takes the lock.                             *)
LockAfterCancel(holder, w, tasks) ==
  IF holder \in tasks
    THEN (IF w = <<>> THEN 0 ELSE w[NextWaiter(w)])
    ELSE holder

(* server.py 96-99: "async for message in ws" ends on the closed            *)
(* connection; every task of the connection that is not done is cancelled   *)
(* and the connection leaves the client set.  A cancelled task ends at the  *)
(* await it is at: the sends of its broadcast are cancelled with it, a       *)
(* waiter leaves the queue of the lock, the holder leaves "async with" and   *)
(* its generator is never resumed.                                           *)
Disconnect(c) ==
  /\ c \in clients \cap closed
  /\ LET tasks == TasksOf(c)
         w == SelectSeq(waiters, LAMBDA q : q \notin tasks)
         holder == LockAfterCancel(lockHolder, w, tasks)
         handed == holder \notin {0, lockHolder}
     IN /\ lockHolder' = holder
        /\ waiters' = IF handed THEN SelectSeq(w, LAMBDA q : q # holder) ELSE w
        /\ admitted' = IF handed THEN Append(admitted, holder) ELSE admitted
        /\ h' = [p \in Prompts |->
                   IF p \in tasks THEN [h[p] EXCEPT !.pc = "cancelled"]
                   ELSE IF handed /\ p = holder THEN [h[p] EXCEPT !.pc = "run"]
                   ELSE h[p]]
        /\ gen' = [p \in Prompts |->
                     IF p \in tasks /\ h[p].pc = "run"
                       THEN [gen[p] EXCEPT !.pc = "cancelled", !.out = <<>>]
                       ELSE gen[p]]
        /\ pending' = [p \in DOMAIN pending |-> IF p \in tasks THEN {} ELSE pending[p]]
  /\ clients' = clients \ {c}
  /\ UNCHANGED <<env, fs, cmd, fr, closed, inbox, requested>>
  /\ UNCHANGED <<running, stop_pc, model, messages, abort_event, steer_queue, events, backend,
                 used, abortAt>>

HandlerStep(p) ==
  \/ Acquire(p) \/ AgentStep(p) \/ Raised(p) \/ ErrorDone(p)
  \/ \E c \in GwClients : SendOk(p, c) \/ SendFail(p, c)

NextDisconnect ==
  \/ \E p \in 1..GwPrompts : PromptFrom(p) \/ HandlerStep(p)
  \/ \E c \in GwClients : ConnClose(c) \/ Disconnect(c)

SpecDisconnect == InitDisconnect /\ [][NextDisconnect]_vars

(* The event loop runs every task that is ready, and a send completes or    *)
(* raises.                                                                   *)
FairSpecDisconnect ==
  InitDisconnect /\ [][NextDisconnect]_vars /\ WF_vars(\E p \in 1..GwPrompts : HandlerStep(p))

(* A step of the program itself: the event loop runs every task that is     *)
(* ready, and every send to an open connection completes.                   *)
ProgramStep ==
  \E p \in 1..1 :
    \/ Acquire(p) \/ AgentStep(p) \/ SleepDone(p) \/ ToolStep(p) \/ CompactStep(p)
    \/ \E c \in AgClients : SendOk(p, c)

(* SpecAgent with the scheduling of asyncio: a ready task is run.  The      *)
(* backend returns finitely many chunks, so it eventually returns a         *)
(* response with no tool call.                                              *)
FairSpecAgent == InitAgent /\ [][NextAgent]_vars /\ WF_vars(ProgramStep)

---------------------------------------------------------------------------
(* Properties *)

Last(s) == s[Len(s)]
EndsWith(es, tail) ==
  Len(es) >= Len(tail) /\ SubSeq(es, Len(es) - Len(tail) + 1, Len(es)) = tail
Types(es) == [i \in 1..Len(es) |-> es[i].type]
Count(es, t) == Cardinality({i \in 1..Len(es) : es[i].type = t})

(* The generator of prompt p has started and has not finished. *)
Active(p) == gen[p].pc \notin {"init", "done"}

(* The positions of s whose entries belong to prompt p form an interval. *)
Contiguous(owner) ==
  \A i, k \in DOMAIN owner :
    i < k /\ owner[i] = owner[k] => \A j \in i..k : owner[j] = owner[i]

(* C1: at most one turn loop is in progress at any time; a prompt appends   *)
(* its User message and makes its first backend call only when every prompt *)
(* admitted before it has produced its last event, so the messages and the  *)
(* backend calls of two prompts never interleave.                           *)
C1_OneTurnLoop ==
  /\ \A p, q \in Prompts : p # q /\ Active(p) => ~Active(q)
  /\ \A p \in Prompts :
       gen[p].pc # "init" =>
         \E i \in DOMAIN admitted :
           /\ admitted[i] = p
           /\ \A j \in 1..(i - 1) : gen[admitted[j]].pc = "done"
  /\ Contiguous([i \in DOMAIN messages |-> messages[i].pid])
  /\ Contiguous([i \in DOMAIN backend |-> backend[i].p])

(* A prompt waits for the mutex while the turn loop of another has called   *)
(* the backend, and later both are in the conversation.                     *)
C1_Witness ==
  /\ Len(requested) = 2 /\ Len(admitted) = 2
  /\ \E p, q \in Prompts :
       /\ p # q /\ gen[p].pc = "done" /\ Active(q)
       /\ \E i, j \in DOMAIN backend : backend[i].p = p /\ backend[j].p = q

(* C2: every prompt() call made while the agent is running emits exactly   *)
(* one agent_end, as the last event of the call, on every path through the  *)
(* turn loop.                                                                *)
C2_OneAgentEnd ==
  \A p \in Prompts :
    /\ Count(events[p], "agent_end") <= 1
    /\ Count(events[p], "agent_end") = 1 => Last(events[p]).type = "agent_end"
    /\ gen[p].pc = "done" => Count(events[p], "agent_end") = 1

(* A call whose arguments are the JSON number 1 made prompt() raise: the     *)
(* call is over and no agent_end was emitted.                                *)
C2_Witness ==
  \E p \in Prompts :
    /\ gen[p].pc = "done"
    /\ gen[p].exc = "ValidationError"
    /\ gen[p].tc.arguments = "1"
    /\ Count(events[p], "agent_end") = 0

IsAssistant(i) == messages[i].role = "assistant"

(* The Tool-Result messages after message i and before the next Assistant   *)
(* message that reference call id.                                           *)
ResultsFor(i, id) ==
  {j \in (i + 1)..Len(messages) :
     /\ messages[j].role = "tool"
     /\ messages[j].tool_call_id = id
     /\ \A k \in (i + 1)..j : ~IsAssistant(k)}

(* C3: absent abort, once prompt() has returned, every call of every        *)
(* Assistant message that carries a tool-call list is answered by exactly   *)
(* one Tool-Result message after it and before the next Assistant message.  *)
C3_ToolResultsPaired ==
  \A p \in Prompts :
    gen[p].pc = "done" /\ ~abortAt[p].set =>
      \A i \in DOMAIN messages :
        IsAssistant(i) /\ messages[i].pid = p =>
          \A k \in DOMAIN messages[i].tool_calls :
            Cardinality(ResultsFor(i, messages[i].tool_calls[k].id)) = 1

(* Without abort and without a raise, prompt() returned and left an         *)
(* Assistant message whose call has no Tool-Result: the stream carried a    *)
(* tool-call delta and no finish_reason "tool_calls".                        *)
C3_Witness ==
  \E p \in Prompts :
    /\ gen[p].pc = "done" /\ ~abortAt[p].set /\ gen[p].exc = ""
    /\ gen[p].finish_reason # "tool_calls"
    /\ IsAssistant(Len(messages))
    /\ Last(messages).tool_calls # <<>>
    /\ Last(events[p]).type = "agent_end"

(* abort() came during prompt p before any chunk of its first stream was    *)
(* consumed, and while the turn loop had not yet decided to end.             *)
AbortedBeforeChunk(p) ==
  /\ abortAt[p].set
  /\ abortAt[p].pc \notin {"return", "raise"}
  /\ abortAt[p].nstreams = 0 \/ (abortAt[p].nstreams = 1 /\ abortAt[p].nread = 0)

AssistantsOf(p) == {i \in DOMAIN messages : IsAssistant(i) /\ messages[i].pid = p}

(* C4: when abort() is called during a prompt before any chunk of its       *)
(* stream has been consumed, the events of the prompt are exactly           *)
(* turn_start, turn_end, agent_end and no Assistant message is appended.    *)
C4_AbortBeforeChunk ==
  \A p \in Prompts :
    gen[p].pc = "done" /\ AbortedBeforeChunk(p) =>
      /\ Types(events[p]) = <<"turn_start", "turn_end", "agent_end">>
      /\ AssistantsOf(p) = {}

(* abort() came during the compaction, after the check at the top of the   *)
(* loop: the stream was opened all the same, and the events of the prompt   *)
(* hold the compaction events.                                               *)
C4_Witness ==
  \E p \in Prompts :
    /\ gen[p].pc = "done" /\ AbortedBeforeChunk(p)
    /\ abortAt[p].pc \in {"compact", "compacting"}
    /\ \E k \in DOMAIN backend : backend[k].op = "stream"
    /\ Types(events[p]) = <<"turn_start", "compaction_start", "compaction_end",
                            "turn_end", "agent_end">>

(* abort() came while a stream of prompt p was being consumed. *)
AbortedMidStream(p) ==
  abortAt[p].set /\ abortAt[p].pc = "reading" /\ abortAt[p].nread >= 1

(* The events of p yielded for what was read after abort() came: those      *)
(* after the events and the pending yields of that moment.                  *)
EventsAfterAbort(p) ==
  SubSeq(events[p], abortAt[p].nev + Len(abortAt[p].out) + 1, Len(events[p]))

(* C5: when abort() is called while a stream is being consumed, no          *)
(* text_delta is emitted for a chunk read after the abort, the prompt ends  *)
(* with turn_end, agent_end, no tool is executed and no Assistant message   *)
(* is appended for that stream.                                              *)
C5_AbortMidStream ==
  \A p \in Prompts :
    gen[p].pc = "done" /\ AbortedMidStream(p) =>
      /\ Count(EventsAfterAbort(p), "text_delta") = 0
      /\ Len(events[p]) >= 2
      /\ SubSeq(Types(events[p]), Len(events[p]) - 1, Len(events[p]))
           = <<"turn_end", "agent_end">>
      /\ Count(EventsAfterAbort(p), "tool_start") = 0
      /\ \A i \in AssistantsOf(p) : i <= abortAt[p].nmsg

(* abort() came after a chunk was read, the stream then ended: the          *)
(* Assistant message of the stream was appended after the abort.            *)
C5_Witness ==
  \E p \in Prompts :
    /\ gen[p].pc = "done" /\ AbortedMidStream(p)
    /\ \E i \in AssistantsOf(p) : i > abortAt[p].nmsg
    /\ EndsWith(Types(events[p]), <<"turn_end", "agent_end">>)

(* The gateway messages client c received from the handler of prompt p. *)
RECURSIVE From(_, _)
From(box, p) ==
  IF box = <<>> THEN <<>>
  ELSE IF Head(box).from = p THEN <<Head(box).m>> \o From(Tail(box), p)
  ELSE From(Tail(box), p)

Received(c, p) == From(inbox[c], p)

(* The gateway messages the handler of prompt p has broadcast, in emission  *)
(* order: the echo, the events of the turn loop, the error of a raise.      *)
Sent(p) ==
  (IF h[p].pc = "idle" THEN <<>> ELSE <<user_message(PromptText(p))>>)
  \o [i \in DOMAIN events[p] |-> serialize_event(events[p][i])]
  \o (IF h[p].pc = "error" \/ (h[p].pc = "done" /\ gen[p].exc # "")
        THEN <<error_message(gen[p].exc)>> ELSE <<>>)

Front(s) == SubSeq(s, 1, Len(s) - 1)

(* C6: a client that has stayed connected has received, for every prompt,   *)
(* the messages broadcast so far in emission order, all of them once the    *)
(* send to it is over and all but the one being sent before; so two such    *)
(* clients hold the same sequence, and an event is produced only when the   *)
(* broadcast of the one before is over for every client.                    *)
C6_SameOrder ==
  \A p \in Prompts :
    \A c \in clients \ closed :
      Received(c, p) = IF \E s \in pending[p] : s.to = c THEN Front(Sent(p)) ELSE Sent(p)

C6_Witness ==
  /\ closed = {}
  /\ \E p \in Prompts :
       /\ h[p].pc = "done"
       /\ Len(events[p]) >= 4
       /\ \A c \in clients : Received(c, p) = Sent(p)
  /\ \E q \in Prompts : h[q].pc \in {"echo", "wait"}

(* C7 as stated: prompts are admitted to the agent in the order in which    *)
(* their prompt messages arrived at the gateway.                            *)
C7_ArrivalOrder ==
  \A i, j \in DOMAIN admitted : i < j => admitted[i] < admitted[j]

(* C7, amended: prompts are admitted in the order in which their handlers   *)
(* ask for the mutex, which is the order in which their echo broadcasts     *)
(* end.                                                                      *)
C7_RequestOrder ==
  /\ Len(admitted) <= Len(requested)
  /\ admitted = SubSeq(requested, 1, Len(admitted))

(* Three prompts were admitted, the third to arrive before the second. *)
C7_Witness ==
  /\ Len(admitted) = 3
  /\ \E i, j \in DOMAIN admitted : i < j /\ admitted[i] > admitted[j]
  /\ \A p \in Prompts : h[p].pc = "done"

(* C8: the user_message echo with the text of the prompt is the first       *)
(* message every connected client receives from the prompt's handler, it    *)
(* is received once, and every connected client has it before the turn      *)
(* loop of the prompt starts; the events follow in emission order.          *)
C8_EchoFirst ==
  \A p \in Prompts :
    \A c \in clients \ closed :
      LET r == Received(c, p)
      IN /\ r # <<>> => Head(r) = user_message(PromptText(p))
         /\ \A i \in 2..Len(r) : r[i].type # "user_message"
         /\ h[p].pc \in {"wait", "run", "error", "done"} => r # <<>>
         /\ \A i \in 2..Len(r) : r[i] = serialize_event(events[p][i - 1])

C8_Witness ==
  /\ closed = {}
  /\ \E p \in Prompts :
       /\ gen[p].pc = "done"
       /\ \A c \in clients :
            /\ Len(Received(c, p)) = Len(events[p]) + 1
            /\ Head(Received(c, p)) = user_message(PromptText(p))
            /\ Last(Received(c, p)).type = "agent_end"

Retryable(r) ==
  r.kind = "connection" \/ (r.kind = "status" /\ r.code \in {429, 500, 502, 503})

MaxRetriesError(r) ==
  AgentEvent("error", "", "", "", "Max retries (3) exceeded: " \o r.message, FALSE)

(* C9: opening a stream makes at most 3 attempts; an attempt follows only   *)
(* a transport error or a status in {429, 500, 502, 503}; a failure of      *)
(* that kind before the third attempt is retried; no call follows a         *)
(* success; after 3 failed attempts the prompt ends with the error          *)
(* "Max retries (3) exceeded" and agent_end.                                 *)
C9_Retry ==
  \A p \in Prompts :
    LET a == gen[p].answers
    IN /\ Len(a) <= 3
       /\ gen[p].attempt < 3
       /\ gen[p].pc # "init" /\ a # <<>> =>
            Len(a) = gen[p].attempt + (IF gen[p].pc = "creating" THEN 0 ELSE 1)
       /\ \A i \in 1..(Len(a) - 1) : Retryable(a[i])
       /\ a # <<>> /\ Retryable(Last(a)) /\ Len(a) < 3 => gen[p].pc \in {"sleeping", "creating"}
       /\ (Len(a) = 3 /\ Retryable(Last(a))) =>
            /\ gen[p].pc \in {"return", "done"}
            /\ EndsWith(events[p] \o gen[p].out, <<MaxRetriesError(Last(a)), Ev("agent_end")>>)
       /\ a # <<>> /\ Last(a).kind = "ok" => gen[p].pc \notin {"creating", "sleeping"}

C9_Witness ==
  \E p \in Prompts :
    /\ gen[p].pc = "done"
    /\ Len(gen[p].answers) = 3
    /\ \A i \in 1..3 : Retryable(gen[p].answers[i])
    /\ Len(backend) = 3
    /\ EndsWith(events[p], <<MaxRetriesError(gen[p].answers[3]), Ev("agent_end")>>)

NonRetryable(r) == r.kind = "status" /\ r.code \notin {429, 500, 502, 503}

StatusErrorEvent(code) ==
  AgentEvent("error", "", "", "", "API error (" \o ToString(code) \o "): status "
                                  \o ToString(code), FALSE)

(* C10: a status outside {429, 500, 502, 503} on opening the stream is the  *)
(* last answer of the opening: no call follows it, exactly one call was     *)
(* made when it answers the first attempt, the prompt ends with an error    *)
(* event that carries the status code and agent_end, and no message is      *)
(* appended to the conversation after the call.                             *)
C10_NoRetry ==
  \A p \in Prompts :
    LET a == gen[p].answers
    IN \A i \in DOMAIN a :
         NonRetryable(a[i]) =>
           /\ i = Len(a)
           /\ gen[p].attempt = i - 1
           /\ gen[p].pc \in {"return", "done"}
           /\ Last(backend) = StreamCall(p, messages)
           /\ i = 1 => Cardinality({k \in DOMAIN backend :
                                      backend[k].p = p /\ backend[k].nmsg = Len(messages)}) = 1
           /\ Last(messages).role # "assistant"
           /\ EndsWith(events[p] \o gen[p].out,
                       <<StatusErrorEvent(a[i].code), Ev("agent_end")>>)

C10_Witness ==
  \E p \in Prompts :
    /\ gen[p].pc = "done"
    /\ gen[p].answers = <<StatusError(401)>>
    /\ Len(backend) = 1
    /\ Types(events[p]) = <<"turn_start", "error", "agent_end">>
    /\ AssistantsOf(p) = {}

(* C11: when a stream fails in mid-flight the prompt ends with error,       *)
(* agent_end; the conversation is what it was when the stream was opened:   *)
(* the User message of the prompt and the messages of its earlier turns     *)
(* remain and no Assistant message is appended for the failed stream.       *)
C11_StreamFailure ==
  \A p \in Prompts :
    gen[p].failed =>
      /\ gen[p].pc \in {"return", "done"}
      /\ EndsWith(events[p] \o gen[p].out, StreamErrorEvents)
      /\ Count(events[p] \o gen[p].out, "agent_end") = 1
      /\ Count(events[p] \o gen[p].out, "error") = 1
      /\ messages = gen[p].opened
      /\ \E i \in DOMAIN messages :
           messages[i] = UserMsg(p, PromptText(p), h[p].chars)
      /\ ~IsAssistant(Len(messages))

(* The second stream of a prompt failed after a text chunk: the first turn  *)
(* with its tool call and Tool-Result is still in the conversation.         *)
C11_Witness ==
  \E p \in Prompts :
    /\ gen[p].pc = "done" /\ gen[p].failed
    /\ gen[p].nstreams = 2 /\ gen[p].nread >= 1
    /\ Len(messages) = 3
    /\ Count(events[p], "text_delta") >= 1
    /\ Last(messages).role = "tool"

(***************************************************************************)
(* C12: a prompt() call that finds the agent not running (start() has not  *)
(* run yet, or stop() has finished) raises AgentNotRunning in its first    *)
(* step: that step appends nothing to the conversation, yields no event    *)
(* and leaves the abort flag and the steer queue as they were; the call    *)
(* never yields an event afterwards either.                                *)
(***************************************************************************)
C12_NotRunning ==
  [][\A p \in Prompts :
       /\ (gen[p].pc = "init" /\ gen'[p].pc # "init" /\ ~running) =>
            /\ gen'[p].pc = "raise"
            /\ gen'[p].exc = "AgentNotRunning"
            /\ gen'[p].out = <<>>
            /\ messages' = messages
            /\ events' = events
            /\ abort_event' = abort_event
            /\ steer_queue' = steer_queue
       /\ gen[p].exc = "AgentNotRunning" =>
            /\ events'[p] = <<>>
            /\ \A i \in DOMAIN messages' : messages'[i].pid # p]_vars

C12_Witness ==
  \E p \in Prompts :
    /\ gen[p].pc = "done" /\ gen[p].exc = "AgentNotRunning"
    /\ stop_pc = "done" /\ abort_event
    /\ messages = Earlier
    /\ events[p] = <<>>

(* The messages handler id has sent or is sending to connection c, given   *)
(* the inboxes and the pending sends.                                       *)
Outgoing(box, pend, id, c) ==
  {From(box[c], id)[k] : k \in DOMAIN From(box[c], id)}
    \cup {s.m : s \in {t \in pend[id] : t.to = c}}

NumOutgoing(box, pend, id, c) ==
  Len(From(box[c], id)) + Cardinality({t \in pend[id] : t.to = c})

(***************************************************************************)
(* C13: for every frame that is not a valid client message (no JSON, not  *)
(* an object, unknown or missing type, prompt or steer without a non-empty *)
(* message string) the gateway sends exactly one message, an error, to the *)
(* sender and nothing to any other connection, calls no agent operation,   *)
(* and the step that handles the frame leaves conversation, abort flag,    *)
(* steer queue and model unchanged.                                        *)
(***************************************************************************)
C13_InvalidFrame ==
  [][\A i \in DOMAIN fr' :
       fr'[i].frame \in InvalidFrames =>
         /\ NumOutgoing(inbox', pending', FrameId(i), fr'[i].c) = 1
         /\ \A m \in Outgoing(inbox', pending', FrameId(i), fr'[i].c) : m.type = "error"
         /\ \A c \in clients \ {fr'[i].c} : NumOutgoing(inbox', pending', FrameId(i), c) = 0
         /\ fr'[i].calls = <<>>
         /\ i \notin DOMAIN fr =>
              UNCHANGED <<messages, abort_event, steer_queue, model>>]_vars

(* The handler of a prompt frame whose message is a list has ended with a  *)
(* ValidationError and nothing was sent.                                    *)
C13_Witness ==
  \E i \in DOMAIN fr :
    /\ fr[i].frame = PromptListMessage
    /\ fr[i].exc = "ValidationError"
    /\ \A c \in clients : NumOutgoing(inbox, pending, FrameId(i), c) = 0
    /\ h[1].pc = "done"

(***************************************************************************)
(* C14: a frame of type model_list_request passes ClientMessage.from_json  *)
(* and its handler sends exactly one message, a model_list, to the         *)
(* requesting connection and nothing to any other connection.              *)
(***************************************************************************)
C14_ModelList ==
  \A i \in DOMAIN fr :
    fr[i].frame = ModelListRequest =>
      /\ from_json(fr[i].frame).ok
      /\ NumOutgoing(inbox, pending, FrameId(i), fr[i].c) = 1
      /\ \A m \in Outgoing(inbox, pending, FrameId(i), fr[i].c) : m.type = "model_list"
      /\ \A c \in clients \ {fr[i].c} : NumOutgoing(inbox, pending, FrameId(i), c) = 0

(* The requester of a model list has received the codec's error instead. *)
C14_Witness ==
  \E i \in DOMAIN fr :
    /\ fr[i].frame = ModelListRequest
    /\ Received(fr[i].c, FrameId(i))
         = <<error_message("Unknown message type: model_list_request")>>
    /\ pending[FrameId(i)] = {}

(***************************************************************************)
(* C15: the handler of a context_request sends exactly one message, the    *)
(* context_info computed from the agent's state at that moment, to the     *)
(* requesting connection; it sends nothing to any other connection, and    *)
(* the step that handles the frame changes nothing of the agent.           *)
(***************************************************************************)
C15_ContextRequest ==
  [][\A i \in DOMAIN fr' :
       fr'[i].frame = ContextRequest =>
         /\ NumOutgoing(inbox', pending', FrameId(i), fr'[i].c) = 1
         /\ \A m \in Outgoing(inbox', pending', FrameId(i), fr'[i].c) :
              m.type = "context_info"
         /\ \A c \in clients \ {fr'[i].c} : NumOutgoing(inbox', pending', FrameId(i), c) = 0
         /\ i \notin DOMAIN fr =>
              /\ pending'[FrameId(i)]
                   = {[to |-> fr'[i].c, m |-> context_info_message(context_info)]}
              /\ UNCHANGED agentVars]_vars

(* A context_info that counts the tokens of the prompt in progress has     *)
(* reached its requester.                                                   *)
C15_Witness ==
  \E i \in DOMAIN fr :
    /\ fr[i].frame = ContextRequest
    /\ Len(Received(fr[i].c, FrameId(i))) = 1
    /\ Received(fr[i].c, FrameId(i))[1].data.user > 0
    /\ \E c \in clients \ {fr[i].c} : Len(inbox[c]) > 0

(***************************************************************************)
(* C16: when a send of a broadcast fails because its connection is closed, *)
(* the step changes neither the client set nor the handler (nothing is     *)
(* raised into it) and leaves every other send of the broadcast in         *)
(* progress; and every connection that is still open receives every        *)
(* message the handler broadcasts, whatever failed for the others.         *)
(***************************************************************************)
C16_SendFailure ==
  /\ [](\A p \in Prompts : \A c \in clients \ closed :
          (\A s \in pending[p] : s.to # c) => Received(c, p) = Sent(p))
  /\ [][\A p \in Prompts : \A c \in closed :
          (\E s \in pending[p] : s.to = c /\ s \notin pending'[p]) =>
            /\ clients' = clients
            /\ h' = h /\ gen' = gen /\ inbox' = inbox
            /\ \A t \in pending[p] : t.to # c => t \in pending'[p]]_vars

(* A prompt has ended after a connection closed under it: the closed       *)
(* connection missed messages, the open one has them all, both are still   *)
(* in the client set.                                                       *)
C16_Witness ==
  \E p \in Prompts : \E c, d \in clients :
    /\ h[p].pc = "done" /\ gen[p].pc = "done"
    /\ c \in closed /\ d \notin closed
    /\ Len(Received(c, p)) < Len(Sent(p))
    /\ Received(c, p) # <<>>
    /\ Received(d, p) = Sent(p)

(* The texts agent.steer has put on the steer queue, in the order of the   *)
(* calls.                                                                   *)
EnqueuedSteers ==
  LET qs == SelectSeq(fr, LAMBDA r : r.calls = <<"steer">> /\ r.exc = ""
                                      /\ strip(r.frame.message.v) # "/model-info")
  IN [i \in DOMAIN qs |-> qs[i].frame.message.v]

(* The texts of the User messages of ms that came from the steer queue. *)
SteerMsgs(ms) ==
  LET us == SelectSeq(ms, LAMBDA m : m.role = "user" /\ m.content \in SteerTexts)
  IN [i \in DOMAIN us |-> us[i].content]

(* messages[t] is a Tool-Result of the Assistant message messages[a]. *)
ResultOf(a, t) ==
  /\ a < t
  /\ messages[a].role = "assistant"
  /\ messages[t].role = "tool"
  /\ \E k \in DOMAIN messages[a].tool_calls :
       messages[a].tool_calls[k].id = messages[t].tool_call_id
  /\ \A k \in (a + 1)..(t - 1) : messages[k].role # "assistant"

(***************************************************************************)
(* C17: the User messages that come from steers, followed by the steers    *)
(* still queued, are the enqueued steers in enqueue order, each once; no   *)
(* such message stands between an Assistant message and one of its         *)
(* Tool-Results; the conversation gains such messages only in the step at  *)
(* the top of a turn-loop iteration, which empties the queue; and a steer  *)
(* that arrives while a tool executes leaves the generator and the         *)
(* conversation as they are.                                               *)
(***************************************************************************)
C17_SteerOrder ==
  /\ [](/\ SteerMsgs(messages) \o steer_queue = EnqueuedSteers
        /\ \A a, k, t \in DOMAIN messages :
             (a < k /\ k < t /\ ResultOf(a, t)) =>
               ~(messages[k].role = "user" /\ messages[k].content \in SteerTexts))
  /\ [][/\ Len(SteerMsgs(messages')) > Len(SteerMsgs(messages)) =>
             \E p \in Prompts : gen[p].pc = "loop_top" /\ gen'[p].pc # "loop_top"
        /\ \A p \in Prompts :
             (gen[p].pc = "loop_top" /\ gen'[p].pc # "loop_top") =>
               /\ steer_queue' = <<>>
               /\ SteerMsgs(messages') = SteerMsgs(messages) \o steer_queue
        /\ \A p \in Prompts :
             (gen[p].pc = "tool_running" /\ Len(fr') > Len(fr)) =>
               /\ gen' = gen /\ messages' = messages
               /\ steer_queue' = Append(steer_queue, Last(fr').frame.message.v)]_vars

(* Two steers, the first of which arrived while the tool was executing,    *)
(* stand in arrival order after the Tool-Result and before the next        *)
(* Assistant message.                                                       *)
C17_Witness ==
  /\ Len(fr) = 2 /\ fr[1].in_tool
  /\ fr[1].frame # fr[2].frame
  /\ Len(messages) = 6
  /\ messages[2].role = "assistant" /\ messages[3].role = "tool"
  /\ messages[4].content = fr[1].frame.message.v
  /\ messages[5].content = fr[2].frame.message.v
  /\ messages[6].role = "assistant"

(***************************************************************************)
(* C18: a steer whose text begins with "/model " sets the model to the     *)
(* rest of the text and broadcasts model_set; every other steer (none of   *)
(* the frames here is /reload) is forwarded to agent.steer, and for        *)
(* "/model-info" every connection gets one model_info message and the      *)
(* model stays as it is.                                                    *)
(***************************************************************************)
C18_SteerRouting ==
  [][\A i \in DOMAIN fr' :
       LET f == fr'[i].frame
           t == strip(f.message.v)
           new == i \notin DOMAIN fr
       IN (from_json(f).ok /\ f.type.v = "steer") =>
            IF startswith(t, "/model ")
              THEN /\ fr'[i].calls = <<"set_model">>
                   /\ new => model' = strip(SubSeq(t, 8, Len(t)))
                   /\ \A c \in clients :
                        Outgoing(inbox', pending', FrameId(i), c)
                          = {model_set(strip(SubSeq(t, 8, Len(t))))}
              ELSE /\ fr'[i].calls = <<"steer">>
                   /\ new => model' = model
                   /\ t = "/model-info" =>
                        \A c \in clients :
                          /\ NumOutgoing(inbox', pending', FrameId(i), c) = 1
                          /\ \A m \in Outgoing(inbox', pending', FrameId(i), c) :
                               m.type = "model_info"]_vars

(* Every connection has received a model_set, and no model_info, for a     *)
(* "/model-info" steer, which never reached agent.steer.                    *)
C18_Witness ==
  \E i \in DOMAIN fr :
    /\ strip(fr[i].frame.message.v) = "/model-info"
    /\ fr[i].calls = <<>>
    /\ \A c \in clients : Received(c, FrameId(i)) = <<model_set(model)>>

(* Event i of E lies in an open turn: the nearest turn_start, turn_end or  *)
(* agent_end before it is a turn_start.                                     *)
InTurn(E, i) ==
  \E j \in 1..(i - 1) :
    /\ E[j].type = "turn_start"
    /\ \A k \in (j + 1)..(i - 1) : E[k].type \notin {"turn_start", "turn_end", "agent_end"}

(* The events of a turn: a compaction pair only directly after turn_start; *)
(* then text_delta events and tool_start events, each tool_start directly  *)
(* followed by the tool_end with its call id; turns do not nest and        *)
(* nothing follows agent_end.                                               *)
TurnGrammar(E) ==
  /\ E # <<>> => E[1].type = "turn_start"
  /\ \A i \in DOMAIN E :
       /\ (E[i].type = "turn_start" /\ i > 1) => E[i - 1].type = "turn_end"
       /\ E[i].type \in {"turn_end", "text_delta", "tool_start", "compaction_start", "error"}
            => InTurn(E, i)
       /\ E[i].type = "turn_end" => E[i - 1].type \notin {"tool_start", "compaction_start"}
       /\ E[i].type = "compaction_start" =>
            /\ E[i - 1].type = "turn_start"
            /\ i < Len(E) => E[i + 1].type = "compaction_end"
       /\ E[i].type = "compaction_end" => (i > 1 /\ E[i - 1].type = "compaction_start")
       /\ E[i].type = "tool_start" =>
            (i < Len(E) => (E[i + 1].type = "tool_end" /\ E[i + 1].id = E[i].id))
       /\ E[i].type = "tool_end" =>
            (i > 1 /\ E[i - 1].type = "tool_start" /\ E[i - 1].id = E[i].id)
       /\ E[i].type = "agent_end" => i = Len(E)

(* The tool_start events of the current turn come in ascending order of    *)
(* the index of their call in the response of that turn.                    *)
AscendingIndex(p) ==
  LET E == events[p]
      by_index == gen[p].tool_calls_by_index
      first == Max({i \in DOMAIN E : E[i].type = "turn_start"})
      starts == {i \in DOMAIN E : i > first /\ E[i].type = "tool_start"}
      IndexOf(id) == CHOOSE n \in DOMAIN by_index : by_index[n].id = id
  IN /\ \A i \in starts : \E n \in DOMAIN by_index : by_index[n].id = E[i].id
     /\ \A i, j \in starts : i < j => IndexOf(E[i].id) < IndexOf(E[j].id)

Fragments(stream) ==
  LET cs == SelectSeq(stream, LAMBDA c : c.choices /\ c.content # "")
  IN [i \in DOMAIN cs |-> cs[i].content]

RECURSIVE Concat(_)
Concat(ts) == IF ts = <<>> THEN "" ELSE Head(ts) \o Concat(Tail(ts))

(* Prompt p is over, it opened one stream, which carried no tool call, and *)
(* there was no abort, no error and no steer.                               *)
TextOnly(p) ==
  /\ gen[p].pc = "done"
  /\ gen[p].nstreams = 1
  /\ \A i \in DOMAIN gen[p].stream : gen[p].stream[i].tc = <<>>
  /\ ~abortAt[p].set /\ ~abort_event
  /\ ~gen[p].failed /\ gen[p].exc = "" /\ Count(events[p], "error") = 0
  /\ fr = <<>>

(* What C20 says of prompt p: the events are turn_start, one text_delta     *)
(* per non-empty fragment in arrival order, turn_end, agent_end, and the    *)
(* conversation is the one the prompt found plus its User message and one   *)
(* Assistant message with the concatenated fragments.                       *)
TextOnlyOutcome(p) ==
  LET frags == Fragments(gen[p].stream)
  IN /\ events[p] = <<Ev("turn_start")>>
                      \o [i \in DOMAIN frags |->
                            AgentEvent("text_delta", "", "", frags[i], "", FALSE)]
                      \o <<Ev("turn_end"), Ev("agent_end")>>
     /\ messages = env.history
                     \o <<UserMsg(p, PromptText(p), h[p].chars),
                          AssistantMsg(p, Concat(frags), <<>>)>>

(***************************************************************************)
(* C20 as stated: every finished prompt with a single text-only stream and *)
(* no abort, error or steer has the text-only events and has extended the  *)
(* conversation by exactly its User message and one Assistant message.     *)
(***************************************************************************)
C20_TextOnly ==
  \A p \in Prompts : TextOnly(p) => TextOnlyOutcome(p)

(***************************************************************************)
(* C20, amended: the same for every such prompt whose conversation stayed  *)
(* below the compaction threshold, so that the turn did not start with a   *)
(* compaction.                                                              *)
(***************************************************************************)
C20_TextOnlyBelowThreshold ==
  \A p \in Prompts :
    (TextOnly(p) /\ Count(events[p], "compaction_start") = 0) => TextOnlyOutcome(p)

(* The stream delivered "Hello", " world" and the finishing chunk. *)
C20_Witness ==
  \E p \in Prompts :
    /\ TextOnly(p)
    /\ Fragments(gen[p].stream) = <<"Hello", " world">>
    /\ Len(gen[p].stream) = 3
    /\ Last(messages).content = "Hello world"
    /\ Len(messages) = Len(Earlier) + 2

(***************************************************************************)
(* C21: a tool call whose name is not registered, or whose execute raises, *)
(* ends in a tool_end event with is_error set ("Unknown tool: <name>" for  *)
(* the unknown name); its Tool-Result message is appended under its        *)
(* call_id; and the loop goes on: to the next tool call of the Assistant   *)
(* message if one remains, else to the loop top, where a further           *)
(* completion call (or the compaction before it) is made. Only an abort    *)
(* ends the prompt at these two points.                                    *)
(***************************************************************************)
FailedToolEnd(e) ==
  /\ e.type = "tool_end"
  /\ e.name \notin REGISTERED_TOOLS \/ e.text = ToolResult("raises").output

ErrorToolEvents ==
  \A p \in Prompts : \A i \in DOMAIN events[p] :
    LET e == events[p][i]
    IN FailedToolEnd(e) =>
         /\ e.err
         /\ e.name \notin REGISTERED_TOOLS => e.text = "Unknown tool: " \o e.name
         /\ i < Len(events[p]) =>
              \E k \in DOMAIN messages :
                /\ messages[k].role = "tool"
                /\ messages[k].tool_call_id = e.id
                /\ messages[k].content = e.text

ErrorToolContinues ==
  \A p \in Prompts :
    /\ (gen[p].pc = "tool_done" /\ gen[p].out = <<>> /\ gen[p].is_error
          /\ gen'[p] # gen[p]) =>
         /\ messages' = Append(messages, ToolMsg(p, gen[p].tc.id, gen[p].result_text))
         /\ IF gen[p].todo = <<>>
              THEN /\ gen'[p].pc = "loop_top"
                   /\ gen'[p].out = <<Ev("turn_end"), Ev("turn_start")>>
            ELSE IF abort_event
              THEN gen'[p].pc = "return"
            ELSE /\ gen'[p].tc = Head(gen[p].todo)
                 /\ gen'[p].pc \in {"tool_exec", "raise"}
    /\ (gen[p].pc = "loop_top" /\ gen[p].out = <<>> /\ gen'[p] # gen[p]
          /\ ~abort_event) =>
         \/ gen'[p].pc = "compact"
         \/ /\ gen'[p].pc = "creating"
            /\ Len(backend') = Len(backend) + 1
            /\ Last(backend') = StreamCall(p, messages')

C21_ToolErrorContinues == []ErrorToolEvents /\ [][ErrorToolContinues]_vars

(* The backend asked for the unregistered tool "nope": the prompt answered *)
(* with the error result and made its second completion call, which saw    *)
(* the Tool-Result message.                                                *)
C21_Witness ==
  \E p \in Prompts :
    /\ \E i \in DOMAIN events[p] :
         /\ events[p][i].type = "tool_end"
         /\ events[p][i].text = "Unknown tool: nope"
         /\ events[p][i].err
    /\ Len(backend) = 2
    /\ \E k \in 1..Last(backend).nmsg :
         /\ messages[k].role = "tool"
         /\ messages[k].content = "Unknown tool: nope"
    /\ gen[p].pc = "done"
    /\ gen[p].exc = ""

(* The compaction_end events of a failed compaction (client.py 179-186). *)
CompactionFailed(e) == e.type = "compaction_end" /\ e.message # ""

IsCompactionEnd(m) == m.type = "compaction_end"

(* Every compaction_end message a client has received from prompt p carries *)
(* the failure message of the event it was serialized from.                 *)
FailureDelivered ==
  \A p \in Prompts : \A c \in env.clients :
    LET got == SelectSeq(Received(c, p), IsCompactionEnd)
        ends == SelectSeq(events[p], IsCompactionEnd)
    IN \A j \in DOMAIN got :
         j <= Len(ends) /\ CompactionFailed(ends[j]) => got[j].message = ends[j].message

(* The step in which the summary call fails leaves the conversation alone,  *)
(* and the turn goes on to open the completion stream on it.                *)
FailureLeavesConversation ==
  \A p \in Prompts :
    /\ (gen[p].pc = "compacting" /\ gen'[p].out # <<>>
          /\ CompactionFailed(Head(gen'[p].out))) =>
         /\ messages' = messages
         /\ gen'[p].pc = "open"
    /\ (gen[p].pc = "open" /\ gen[p].out = <<>> /\ gen'[p] # gen[p]) =>
         /\ gen'[p].pc = "creating"
         /\ backend' = Append(backend, StreamCall(p, messages))

(***************************************************************************)
(* C22: when the backend call of a compaction fails, the conversation is   *)
(* left unchanged, the compaction_end message delivered to the clients     *)
(* carries the failure message, and the turn goes on to open the           *)
(* completion stream without compacting.                                   *)
(***************************************************************************)
C22_CompactionFailure == []FailureDelivered /\ [][FailureLeavesConversation]_vars

(* What does hold: the conversation is untouched and the stream is opened. *)
C22_ConversationKept == [][FailureLeavesConversation]_vars

(* The summary call failed, a client received the compaction_end message   *)
(* and the completion stream was opened on the uncompacted conversation.   *)
C22_Witness ==
  \E p \in Prompts : \E c \in env.clients :
    /\ \E i \in DOMAIN events[p] : CompactionFailed(events[p][i])
    /\ \E j \in DOMAIN inbox[c] : inbox[c][j].from = p /\ inbox[c][j].m.type = "compaction_end"
    /\ Len(backend) = 2
    /\ backend[1].op = "summary"
    /\ backend[2] = StreamCall(p, messages)
    /\ messages = Append(env.history, UserMsg(p, PromptText(p), h[p].chars))

(* The last call was an edit of the file with the reference ref and a new   *)
(* text, and the file was then as the last read had seen it.                *)
EditedWith(ref) ==
  /\ fs.reads > 0
  /\ fs.call.tool = "edit"
  /\ fs.call.args.file_path = Str("/f")
  /\ fs.call.args.hash = Str(ref)
  /\ ~Falsy(fs.call.args.new_text)
  /\ fs.call.before.disk = fs.read_disk

(* The lines before and after line i are the same, in the same order. *)
OtherLinesKept(before, after, i) ==
  LET old == splitlines(before)
      new == splitlines(after)
  IN /\ Len(new) >= Len(old)
     /\ SubSeq(new, 1, i - 1) = SubSeq(old, 1, i - 1)
     /\ SubSeq(new, Len(new) - (Len(old) - i) + 1, Len(new)) = SubSeq(old, i + 1, Len(old))

EditSucceeded(ref) ==
  /\ ~fs.call.result.is_error
  /\ fs.call.after.disk # fs.call.before.disk
  /\ OtherLinesKept(fs.call.before.disk["/f"].text, fs.call.after.disk["/f"].text,
                    match_ref(ref).line)

(* The content of the line a reference of the last read stands for. *)
ReadContent(ref) ==
  rstrip_newline(splitlines(fs.read_disk["/f"].text)[match_ref(ref).line])

(***************************************************************************)
(* C23: for every line of the file, empty lines included, an edit with the *)
(* "<line>:<hash>" reference that read returned for the line succeeds, and *)
(* every other line of the file is unchanged and in the same order.        *)
(***************************************************************************)
C23_ReadThenEdit ==
  \A ref \in Refs(fs.read) : EditedWith(ref) => EditSucceeded(ref)

(* What does hold: the same for the lines that are not empty. *)
C23_NonEmptyLines ==
  \A ref \in Refs(fs.read) :
    (EditedWith(ref) /\ ReadContent(ref) # "") => EditSucceeded(ref)

(* The file is "a", an empty line, "2": read returned "2:0" for the empty   *)
(* line, and the edit with "2:0" failed and left the file as it was.        *)
C23_Witness ==
  /\ fs.read = "1:be|a\n2:0|\n3:be|2"
  /\ EditedWith("2:0")
  /\ fs.call.result.is_error
  /\ fs.call.after = fs.call.before

(* The last call was an edit with the reference that the last read returned *)
(* for a line whose content another program has changed since.              *)
StaleEdit(ref) ==
  LET now == splitlines(fs.call.before.disk["/f"].text)
      i == match_ref(ref).line
  IN /\ fs.reads > 0
     /\ fs.call.tool = "edit"
     /\ fs.call.args.file_path = Str("/f")
     /\ fs.call.args.hash = Str(ref)
     /\ ~Falsy(fs.call.args.new_text)
     /\ fs.call.before.disk["/f"].exists
     /\ i > Len(now) \/ rstrip_newline(now[i]) # ReadContent(ref)

EditRefused ==
  /\ fs.call.result.is_error
  /\ fs.call.after = fs.call.before

(***************************************************************************)
(* C24: when the content of the referenced line has been changed since the *)
(* read, whatever the change, an edit with the old "<line>:<hash>"         *)
(* reference returns is_error and leaves the file unchanged.               *)
(***************************************************************************)
C24_StaleReference ==
  \A ref \in Refs(fs.read) : StaleEdit(ref) => EditRefused

(* What does hold: the same for a change to a content with another hash. *)
C24_OtherHash ==
  \A ref \in Refs(fs.read) :
    LET now == splitlines(fs.call.before.disk["/f"].text)
        i == match_ref(ref).line
    IN (StaleEdit(ref) /\ (i > Len(now) \/ hash_line(rstrip_newline(now[i])) # match_ref(ref).hash))
         => EditRefused

(* Line 1 was "a" when it was read as "1:be" and is "2" now, which has the  *)
(* same hash: the edit with "1:be" replaced the new content.                *)
C24_Witness ==
  /\ fs.read_disk["/f"].text = "a\n"
  /\ StaleEdit("1:be")
  /\ fs.call.before.disk["/f"].text = "2\n"
  /\ ~fs.call.result.is_error
  /\ fs.call.after.disk["/f"].text = "x\n"

(* The parameters each tool's definition() lists under "required". *)
Required(tool) ==
  CASE tool = "bash" -> {"command"}
    [] tool = "read" -> {"file_paths"}
    [] tool = "write" -> {"file_path", "content"}
    [] tool = "edit" -> {"file_path", "hash", "new_text"}
    [] tool = "search_web" -> {"query"}
    [] tool = "canvas" -> {"action"}

MissingRequired(call, names) ==
  /\ call.tool \in REGISTERED_TOOLS
  /\ \E name \in Required(call.tool) \cap names : Falsy(call.args[name])

Rejected(call) ==
  /\ call.result.is_error
  /\ call.result.output # ""
  /\ call.after = call.before
  /\ call.raised = ""

AllParameters == {"command", "file_paths", "file_path", "content", "hash", "new_text",
                  "query", "action"}

(***************************************************************************)
(* C25: a call of a built-in tool in which a required parameter is missing *)
(* or empty returns is_error with a message, changes neither the files nor *)
(* the processes, and does not raise.                                      *)
(***************************************************************************)
C25_MissingParameter ==
  MissingRequired(fs.call, AllParameters) => Rejected(fs.call)

(* What does hold: the same for every required parameter but the content   *)
(* of write.                                                                *)
C25_ExceptWriteContent ==
  MissingRequired(fs.call, AllParameters \ {"content"}) => Rejected(fs.call)

(* write was called for the file "a" without a content: it reported        *)
(* success and the file is empty.                                           *)
C25_Witness ==
  /\ fs.call.tool = "write"
  /\ fs.call.args = [file_path |-> Str("/f"), content |-> Missing]
  /\ fs.call.before.disk["/f"] = File("a")
  /\ fs.call.result = Result("Wrote 0 bytes to /f", FALSE)
  /\ fs.call.after.disk["/f"] = File("")

(* The agent bound to the session after the swap is the old agent as it was *)
(* immediately before the swap, with a started completion client.           *)
SameAgentState ==
  /\ cmd.new.messages = cmd.old.messages
  /\ cmd.new.model = cmd.old.model
  /\ cmd.new.system_prompt = cmd.old.system_prompt
  /\ cmd.new.client
  /\ cmd.new.running

(***************************************************************************)
(* C26: after a /reload steer the agent bound to the session has the       *)
(* conversation, the model id and the system prompt that the old agent had *)
(* immediately before the swap, and a started completion client; also when *)
(* the model was changed with /model before, when a session snapshot file  *)
(* exists, and when a prompt turn is in progress during the reload.        *)
(***************************************************************************)
C26_ReloadKeepsState == cmd.agent = 1 => SameAgentState

(* What does hold: the same when there is no session snapshot file and the *)
(* old agent did not change between the save and the swap.                  *)
C26_QuietReload ==
  (cmd.agent = 1 /\ ~env.file.exists /\ cmd.old = cmd.saved) => SameAgentState

(* A session snapshot exists and the model was switched with /model before *)
(* the /reload: the new agent has the model of the snapshot again.          *)
C26_Witness ==
  /\ cmd.agent = 1
  /\ env.file.exists
  /\ cmd.old.model = OTHER_MODEL
  /\ cmd.new.model = DEFAULT_MODEL
  /\ cmd.new.messages = cmd.old.messages

(* A prompt turn was in progress: the old agent appended its Assistant     *)
(* message while stop() was closing, and the new agent does not have it.   *)
C26_TurnWitness ==
  /\ cmd.agent = 1
  /\ cmd.in_turn
  /\ ~env.file.exists
  /\ Len(cmd.old.messages) = Len(cmd.new.messages) + 1
  /\ Last(cmd.old.messages).role = "assistant"

(* Message j of conversation ms is a Tool-Result that no earlier Assistant  *)
(* message of ms announces: none has a tool call with its call_id.           *)
Orphan(ms, j) ==
  /\ ms[j].role = "tool"
  /\ ~\E i \in 1..(j - 1) :
        /\ ms[i].role = "assistant"
        /\ \E k \in DOMAIN ms[i].tool_calls : ms[i].tool_calls[k].id = ms[j].tool_call_id

(***************************************************************************)
(* C27: in every reachable state of the conversation, also when a /compact *)
(* steer runs while a prompt turn is in progress, every Tool-Result        *)
(* message is preceded by an Assistant message that contains a tool call   *)
(* with the same call_id.                                                  *)
(***************************************************************************)
C27_ToolResultPreceded == \A j \in DOMAIN messages : ~Orphan(messages, j)

(* What does hold: the same as long as no /compact steer was handled.       *)
C27_WithoutCompactSteer ==
  cmd.kind # "compact" => \A j \in DOMAIN messages : ~Orphan(messages, j)

(* The /compact steer took its cut while the turn was streaming, the turn   *)
(* appended the Assistant message with the call, the compaction replaced    *)
(* the list by summary and kept messages, and the turn appended the         *)
(* Tool-Result of the call.                                                 *)
C27_Witness ==
  /\ cmd.kind = "compact"
  /\ cmd.in_turn
  /\ cmd.pc = "done"
  /\ messages # <<>>
  /\ Orphan(messages, Len(messages))
  /\ messages[1].content = "[Previous conversation summary]"

(* The step is one of the turn loop of the handler that holds the prompt    *)
(* mutex: its generator moves.                                               *)
TurnLoopStep == lockHolder # 0 /\ gen'[lockHolder] # gen[lockHolder]

(***************************************************************************)
(* C28: the conversation list is modified only by a turn loop that holds   *)
(* the prompt mutex; no other handler (steer including /compact, /reload,  *)
(* abort, context_request) changes it while a prompt turn is in progress.  *)
(***************************************************************************)
C28_OnlyTurnLoop ==
  [][(TurnInProgress /\ messages' # messages) => TurnLoopStep]_vars

(* What does hold: the same for every handler but the /compact steer.       *)
C28_ExceptCompactSteer ==
  [][(TurnInProgress /\ messages' # messages /\ cmd.kind # "compact") => TurnLoopStep]_vars

(* The /compact steer has replaced the conversation while the tool of the   *)
(* turn in progress was executing.                                          *)
C28_Witness ==
  /\ cmd.kind = "compact"
  /\ cmd.pc = "done"
  /\ cmd.in_turn
  /\ lockHolder # 0
  /\ gen[lockHolder].pc = "tool_running"
  /\ messages[1].content = "[Previous conversation summary]"
  /\ Len(messages) = 2 + Len(cmd.kept)

(* The number of tool_start events among the first n events of prompt p. *)
ToolStarts(p, n) == Cardinality({i \in 1..n : events[p][i].type = "tool_start"})

(* execute() of a tool is running in prompt p and was started after the     *)
(* abort: the abort did not find this very execution running.               *)
ExecuteStartedAfterAbort(p) ==
  /\ abortAt[p].set
  /\ gen[p].pc = "tool_running"
  /\ ~(/\ abortAt[p].pc = "tool_running"
       /\ ToolStarts(p, abortAt[p].nev) = ToolStarts(p, Len(events[p])))

(***************************************************************************)
(* C29: once abort() has been called during a prompt, no tool's execute()  *)
(* is started afterwards in that prompt, at whatever point the abort       *)
(* arrives, also while the tool_start event of the next tool is being      *)
(* broadcast.                                                              *)
(***************************************************************************)
C29_NoExecuteAfterAbort == \A p \in Prompts : ~ExecuteStartedAfterAbort(p)

(* What does hold: the same for an abort that arrives at any point other    *)
(* than between the abort check of a tool call and its execute().           *)
C29_ExceptAfterCheck ==
  \A p \in Prompts : abortAt[p].pc # "tool_exec" => ~ExecuteStartedAfterAbort(p)

(* The abort arrived while tool_start of a registered tool was being        *)
(* broadcast, and the tool's execute() is running.                          *)
C29_Witness ==
  \E p \in Prompts :
    /\ abortAt[p].set
    /\ abortAt[p].pc = "tool_exec"
    /\ abortAt[p].out = <<>>
    /\ abortAt[p].nev = Len(events[p])
    /\ Last(events[p]).type = "tool_start"
    /\ gen[p].pc = "tool_running"
    /\ abort_event

(* abort() was called while execute() of a tool of prompt p was running. *)
AbortedInTool(p) == abortAt[p].set /\ abortAt[p].pc = "tool_running"

(* The tool_start event of the tool that was executing when the abort came: *)
(* the last tool_start among the events emitted before the abort.           *)
RunningAtAbort(p) ==
  events[p][Max({i \in 1..abortAt[p].nev : events[p][i].type = "tool_start"})]

(* What prompt p shows once it is over, if the abort came during a tool. *)
AbortedToolOutcome(p) ==
  LET call == RunningAtAbort(p)
  IN /\ \E i \in (abortAt[p].nev + 1)..Len(events[p]) :
          events[p][i].type = "tool_end" /\ events[p][i].id = call.id
     /\ \E j \in (abortAt[p].nmsg + 1)..Len(messages) :
          messages[j].role = "tool" /\ messages[j].tool_call_id = call.id
     /\ ToolStarts(p, Len(events[p])) = ToolStarts(p, abortAt[p].nev)
     /\ Count(events[p], "tool_end") = ToolStarts(p, abortAt[p].nev)
     /\ EndsWith(Types(events[p]), <<"turn_end", "agent_end">>)
     /\ gen[p].exc = ""

(* The execution that the abort found running ends only by the tool's own   *)
(* return or raise, with its tool_end event.                                *)
AbortedToolCompletes(p) ==
  (AbortedInTool(p) /\ gen[p].pc = "tool_running" /\ gen'[p] # gen[p]) =>
    /\ gen'[p].pc = "tool_done"
    /\ Len(gen'[p].out) = 1
    /\ gen'[p].out[1].type = "tool_end"
    /\ gen'[p].out[1].id = gen[p].tc.id

(***************************************************************************)
(* C30: if abort() is called while a tool is executing, that tool runs to  *)
(* completion, its tool_end event is emitted and its Tool-Result message   *)
(* is appended to the conversation; the remaining tool calls of the same   *)
(* Assistant message are not executed and the prompt ends with turn_end,   *)
(* agent_end.                                                              *)
(***************************************************************************)
C30_AbortDuringTool ==
  /\ [](\A p \in Prompts : AbortedInTool(p) /\ gen[p].pc = "done" => AbortedToolOutcome(p))
  /\ [][\A p \in Prompts : AbortedToolCompletes(p)]_vars

(* The abort came while call c1 of an Assistant message with calls c1 and   *)
(* c2 was executing; the prompt is over and c2 was never started.           *)
C30_Witness ==
  \E p \in Prompts :
    /\ AbortedInTool(p)
    /\ gen[p].pc = "done"
    /\ RunningAtAbort(p).id = "c1"
    /\ \E i \in DOMAIN messages :
         /\ messages[i].role = "assistant"
         /\ Len(messages[i].tool_calls) = 2
         /\ messages[i].tool_calls[2].id = "c2"
    /\ Last(messages).role = "tool"
    /\ Last(messages).tool_call_id = "c1"
    /\ ToolStarts(p, Len(events[p])) = 1

(* The two synthetic messages that open a compacted conversation. *)
CompactedHead ==
  <<UserMsg(0, "[Previous conversation summary]", Chars.small),
    AssistantMsg(0, "Understood.", <<>>)>>

(* The step in which the summary call of the /compact steer returns and     *)
(* _compact assigns the new list.                                           *)
SteerCompactionCompletes ==
  cmd.kind = "compact" /\ cmd.pc = "compacting" /\ cmd'.pc = "done" /\ used' = used

(* The step in which _compact of the /compact steer finds cut = 0. *)
SteerNothingToCompact == cmd.kind = "compact" /\ cmd.pc = "start" /\ cmd'.pc = "done"

(***************************************************************************)
(* C31: when compaction completes with cut > 0 the conversation becomes    *)
(* exactly [summary User message, acknowledgment Assistant message]        *)
(* followed by every message that was at index >= cut, in the original     *)
(* order: none of them is lost, however a /compact steer interleaves with  *)
(* a running prompt turn.  When cut is 0 the conversation is unchanged and *)
(* no backend call is made.                                                *)
(***************************************************************************)
C31_CompactionKeepsSuffix ==
  /\ [][SteerCompactionCompletes =>
          messages' = CompactedHead \o SubSeq(messages, cmd.cut + 1, Len(messages))]_vars
  /\ [][SteerNothingToCompact => messages' = messages /\ backend' = backend]_vars

(* What does hold: the suffix is the one from the cut to the end of the     *)
(* list as it was when the cut was taken; and the cut = 0 case.             *)
C31_SuffixAtCutTime ==
  /\ [][SteerCompactionCompletes => messages' = CompactedHead \o cmd.kept]_vars
  /\ [][SteerNothingToCompact => messages' = messages /\ backend' = backend]_vars

(* The turn appended its Assistant message after the cut was taken, and the *)
(* completed compaction left a list without it.                             *)
C31_Witness ==
  /\ cmd.kind = "compact"
  /\ cmd.pc = "done"
  /\ cmd.cut > 0
  /\ cmd.in_turn
  /\ Len(messages) = 2 + Len(cmd.kept)
  /\ SubSeq(messages, 1, 2) = CompactedHead
  /\ \E p \in Prompts : gen[p].pc = "tool_exec" /\ gen[p].tc.id = "c1"
  /\ ~\E i \in DOMAIN messages : messages[i].role = "assistant" /\ messages[i].tool_calls # <<>>

(* The /compact steer found nothing to compact. *)
C31_NothingWitness ==
  cmd.kind = "compact" /\ cmd.pc = "done" /\ cmd.cut = 0 /\ cmd.kept = <<>> /\ messages = Earlier

(***************************************************************************)
(* C32: for every conversation the cut index computed for compaction is 0  *)
(* or the index of a User or Assistant message, never of a Tool-Result, so *)
(* the suffix kept after compaction never begins with a Tool-Result whose  *)
(* tool call was summarized away.                                          *)
(***************************************************************************)
C32_CutOnUserOrAssistant ==
  /\ cmd.cut \in 0..Len(env.history)
  /\ cmd.cut # 0 =>
       /\ cmd.cut < Len(env.history)
       /\ env.history[cmd.cut + 1].role \in {"user", "assistant"}
       /\ cmd.kept = SubSeq(env.history, cmd.cut + 1, Len(env.history))
       /\ Head(cmd.kept).role # "tool"
  /\ cmd.pc = "compacting" => cmd.cut # 0 /\ messages = env.history

(* The recent-token budget was reached on a Tool-Result and the cut moved   *)
(* forward to the next User or Assistant message.                           *)
C32_Witness ==
  /\ cmd.pc = "compacting"
  /\ cmd.cut >= 2
  /\ messages[cmd.cut].role = "tool"
  /\ RecentTokens(messages, cmd.cut) >= KEEP_RECENT_TOKENS
  /\ RecentTokens(messages, cmd.cut + 1) < KEEP_RECENT_TOKENS
  /\ messages[cmd.cut - 1].role = "assistant"
  /\ messages[cmd.cut - 1].tool_calls # <<>>

(* The tool-call deltas of the chunks of a stream, in arrival order; a      *)
(* chunk with an empty choices list carries none.                           *)
RECURSIVE DeltasOf(_)
DeltasOf(stream) ==
  IF stream = <<>> THEN <<>>
  ELSE (IF Head(stream).choices THEN Head(stream).tc ELSE <<>>) \o DeltasOf(Tail(stream))

(* The last non-null value of field f among the deltas ds, "" if none. *)
RECURSIVE LastNonNull(_, _)
LastNonNull(ds, f) ==
  IF ds = <<>> THEN ""
  ELSE IF ds[Len(ds)][f] # "" THEN ds[Len(ds)][f]
  ELSE LastNonNull(SubSeq(ds, 1, Len(ds) - 1), f)

(* The values of field f of the deltas ds, concatenated in arrival order. *)
RECURSIVE Joined(_, _)
Joined(ds, f) == IF ds = <<>> THEN "" ELSE Head(ds)[f] \o Joined(Tail(ds), f)

(* The deltas of ds for index i, in arrival order. *)
RECURSIVE ForIndex(_, _)
ForIndex(ds, i) ==
  IF ds = <<>> THEN <<>>
  ELSE (IF Head(ds).index = i THEN <<Head(ds)>> ELSE <<>>) \o ForIndex(Tail(ds), i)

(* The call the claim synthesizes from the deltas of one index. *)
LastWinsCall(ds) ==
  [id |-> LastNonNull(ds, "id"), name |-> LastNonNull(ds, "name"),
   arguments |-> Joined(ds, "arguments")]

(* The same, with the name fragments concatenated like the arguments. *)
JoinedNameCall(ds) ==
  [id |-> LastNonNull(ds, "id"), name |-> Joined(ds, "name"),
   arguments |-> Joined(ds, "arguments")]

(* The calls for the indices in I, in ascending index order. *)
RECURSIVE Ascending(_, _, _)
Ascending(ds, I, joined) ==
  IF I = {} THEN <<>>
  ELSE <<IF joined THEN JoinedNameCall(ForIndex(ds, Min(I)))
                   ELSE LastWinsCall(ForIndex(ds, Min(I)))>>
       \o Ascending(ds, I \ {Min(I)}, joined)

IndicesOf(ds) == {ds[k].index : k \in DOMAIN ds}

(* The step of prompt p in which a consumed stream ends and its Assistant   *)
(* message is appended.                                                     *)
AssistantAppended(p) ==
  /\ gen[p].pc = "reading"
  /\ Len(messages') = Len(messages) + 1
  /\ messages'[Len(messages')].role = "assistant"

(***************************************************************************)
(* C33: when tool-call deltas for the same index arrive across several     *)
(* chunks, the synthesized tool call has the last non-null id, the last    *)
(* non-null function name, and arguments equal to the concatenation of all *)
(* argument fragments in arrival order; the Assistant message lists the    *)
(* tool calls in ascending index order whatever the arrival order of the   *)
(* indices.                                                                *)
(***************************************************************************)
C33_DeltaMerge ==
  [][\A p \in Prompts :
       AssistantAppended(p) =>
         LET ds == DeltasOf(gen[p].stream)
         IN messages'[Len(messages')].tool_calls = Ascending(ds, IndicesOf(ds), FALSE)]_vars

(* What does hold: the same with the name being the concatenation of the    *)
(* name fragments.                                                          *)
C33_NameConcatenated ==
  [][\A p \in Prompts :
       AssistantAppended(p) =>
         LET ds == DeltasOf(gen[p].stream)
         IN messages'[Len(messages')].tool_calls =
              Ascending(ds, IndicesOf(ds), TRUE)]_vars

(* Two deltas for index 0 carried a name: the call of the Assistant message *)
(* is named by both, not by the last.                                       *)
C33_Witness ==
  \E i \in DOMAIN messages :
    /\ messages[i].role = "assistant"
    /\ Len(messages[i].tool_calls) = 1
    /\ messages[i].tool_calls[1].name = "nopebash"
    /\ messages[i].tool_calls[1].id = "c1"
    /\ messages[i].tool_calls[1].arguments = "{{}"

(* An argument string that is not the text of a JSON object. *)
Malformed(text) == json_loads(text) # "object"

(* The last call that the tool loop of prompt p took up. *)
TookUp(p) == gen[p].tc

(* What the claim says of a call that the tool loop took up. *)
CallHandled(p, call) ==
  /\ \E i \in DOMAIN events[p] : events[p][i].type = "tool_start" /\ events[p][i].id = call.id
  /\ \E i \in DOMAIN events[p] : events[p][i].type = "tool_end" /\ events[p][i].id = call.id
  /\ \E j \in DOMAIN messages : messages[j].role = "tool" /\ messages[j].tool_call_id = call.id
  /\ Last(events[p]).type = "agent_end"
  /\ gen[p].exc = ""

(***************************************************************************)
(* C34: for every malformed tool-call argument string, text that is not    *)
(* valid JSON or JSON that is not an object, the turn loop uses an empty   *)
(* object as the arguments, still emits tool_start and tool_end for the    *)
(* call and appends its Tool-Result, and the prompt still ends with        *)
(* agent_end.                                                              *)
(***************************************************************************)
C34_MalformedArguments ==
  \A p \in Prompts :
    (gen[p].pc = "done" /\ TookUp(p) # NoCall /\ Malformed(TookUp(p).arguments)) =>
      CallHandled(p, TookUp(p))

(* What does hold: the same for text that is not valid JSON. *)
C34_NotJson ==
  \A p \in Prompts :
    (/\ gen[p].pc = "done"
     /\ TookUp(p) # NoCall
     /\ json_loads(TookUp(p).arguments) = "JSONDecodeError") =>
      CallHandled(p, TookUp(p))

(* The loop took up call c2 with the arguments text 1, a JSON number: the   *)
(* prompt is over with no tool_start for c2, no Tool-Result and no          *)
(* agent_end.                                                               *)
C34_Witness ==
  \E p \in Prompts :
    /\ gen[p].pc = "done"
    /\ TookUp(p).id = "c2"
    /\ TookUp(p).arguments = "1"
    /\ json_loads(TookUp(p).arguments) = "number"
    /\ gen[p].exc = "ValidationError"
    /\ ~\E i \in DOMAIN events[p] : events[p][i].type = "tool_start" /\ events[p][i].id = "c2"
    /\ ~\E j \in DOMAIN messages : messages[j].role = "tool"
    /\ Last(events[p]).type # "agent_end"

(* The loop took up a call whose arguments are not valid JSON and handled   *)
(* it with an empty object.                                                 *)
C34_NotJsonWitness ==
  \E p \in Prompts :
    /\ gen[p].pc = "done"
    /\ json_loads(TookUp(p).arguments) = "JSONDecodeError"
    /\ TookUp(p).name = "bash"
    /\ CallHandled(p, TookUp(p))

(* The step of prompt p in which a consumed stream ends with a response     *)
(* that has no tool calls or whose finish_reason is not "tool_calls".       *)
NoCallsOrOtherReason(g) ==
  DOMAIN g.tool_calls_by_index = {} \/ g.finish_reason # "tool_calls"

NaturalBreak(p) == AssistantAppended(p) /\ NoCallsOrOtherReason(gen[p])

(* The tool loop of prompt p is at a tool call. *)
AtTool(p) == gen[p].pc \in {"tool_exec", "tool_running", "tool_done"}

(* Prompt p has left the loop by the natural break and has still to emit    *)
(* turn_end and agent_end and to return.                                    *)
Leaving(p) ==
  /\ gen[p].pc = "return"
  /\ gen[p].out = <<Ev("turn_end"), Ev("agent_end")>>
  /\ NoCallsOrOtherReason(gen[p])

(***************************************************************************)
(* C35: prompt() terminates: if every completion stream and every tool     *)
(* execution terminates and the backend eventually returns a response that *)
(* has no tool calls or whose finish_reason is not "tool_calls", the turn  *)
(* loop leaves the loop and emits turn_end then agent_end; tools are       *)
(* executed only for a response that has tool calls and finish_reason      *)
(* "tool_calls".                                                           *)
(***************************************************************************)
C35_Terminates ==
  /\ \A p \in 1..1 : Active(p) ~> (gen[p].pc = "done")
  /\ \A p \in 1..1 :
       Leaving(p) ~> (gen[p].pc = "done"
                        /\ EndsWith(Types(events[p]), <<"turn_end", "agent_end">>))
  /\ [][\A p \in Prompts : NaturalBreak(p) => Leaving(p)']_vars
  /\ [](\A p \in Prompts :
          AtTool(p) => /\ gen[p].finish_reason = "tool_calls"
                       /\ DOMAIN gen[p].tool_calls_by_index # {})

(* A prompt ran a tool for a first response, got a second response with     *)
(* text only, left the loop and returned.                                   *)
C35_Witness ==
  \E p \in Prompts :
    /\ gen[p].pc = "done"
    /\ gen[p].nstreams = 2
    /\ NoCallsOrOtherReason(gen[p])
    /\ Count(events[p], "tool_end") = 1
    /\ EndsWith(Types(events[p]), <<"text_delta", "turn_end", "agent_end">>)

(* The last call was an edit of the existing file /f with a range reference *)
(* and a new text.                                                          *)
RangeEdit ==
  /\ fs.call.tool = "edit"
  /\ fs.call.args.file_path = Str("/f")
  /\ ~Falsy(fs.call.args.hash)
  /\ Contains(fs.call.args.hash.v, "-")
  /\ ~Falsy(fs.call.args.new_text)
  /\ fs.call.before.disk["/f"].exists

LinesBefore == splitlines(fs.call.before.disk["/f"].text)
StartAnchor == match_ref(split(fs.call.args.hash.v, "-")[1])
EndAnchor == match_ref(split(fs.call.args.hash.v, "-")[2])

(* An anchor matches the file: the line of that number has that hash. *)
AnchorMatches(lines, anchor) ==
  /\ anchor.line \in 1..Len(lines)
  /\ hash_line(rstrip_newline(lines[anchor.line])) = anchor.hash

(* The file after the edit is the lines before the start, the new text with *)
(* or without a final newline, and the lines after the end.                 *)
RangeReplaced ==
  LET new_text == fs.call.args.new_text.v
      head == join("", SubSeq(LinesBefore, 1, StartAnchor.line - 1))
      tail == join("", SubSeq(LinesBefore, EndAnchor.line + 1, Len(LinesBefore)))
  IN /\ ~fs.call.result.is_error
     /\ fs.call.after.disk["/f"].text \in
          {head \o new_text \o tail, head \o new_text \o "\n" \o tail}

(* The refusing half of C36. *)
RangeRefused ==
  (RangeEdit /\ (\/ ~AnchorMatches(LinesBefore, StartAnchor)
                 \/ ~AnchorMatches(LinesBefore, EndAnchor)
                 \/ EndAnchor.line < StartAnchor.line)) =>
    EditRefused

(***************************************************************************)
(* C36: a range edit whose start anchor or end anchor does not match the   *)
(* current file (line number and hash), or whose end line precedes its     *)
(* start line, returns is_error=true and does not write the file; a range  *)
(* edit whose anchors both match replaces exactly the lines from start to  *)
(* end inclusive and leaves all lines outside the range unchanged.         *)
(***************************************************************************)
C36_RangeEdit ==
  /\ RangeRefused
  /\ (/\ RangeEdit
      /\ AnchorMatches(LinesBefore, StartAnchor)
      /\ AnchorMatches(LinesBefore, EndAnchor)
      /\ StartAnchor.line <= EndAnchor.line) => RangeReplaced

(* What does hold: the same when neither anchor line is empty. *)
C36_NonEmptyAnchors ==
  /\ RangeRefused
  /\ (/\ RangeEdit
      /\ AnchorMatches(LinesBefore, StartAnchor)
      /\ AnchorMatches(LinesBefore, EndAnchor)
      /\ StartAnchor.line <= EndAnchor.line
      /\ rstrip_newline(LinesBefore[StartAnchor.line]) # ""
      /\ rstrip_newline(LinesBefore[EndAnchor.line]) # "") => RangeReplaced

(* The file is "a", "2" and an empty line; the range from line 1 to the     *)
(* empty line 3, with the references that read returned, is refused.        *)
C36_Witness ==
  /\ RangeEdit
  /\ fs.call.before.disk["/f"].text = "a\n2\n\n"
  /\ fs.call.args.hash = Str("1:be-3:0")
  /\ AnchorMatches(LinesBefore, StartAnchor)
  /\ AnchorMatches(LinesBefore, EndAnchor)
  /\ fs.call.result = Result("End hash 3:0 not found in file.", TRUE)
  /\ fs.call.after = fs.call.before

(* A range edit replaced lines 1 to 2 of three and kept line 3. *)
C36_ReplacedWitness ==
  /\ RangeEdit
  /\ fs.call.before.disk["/f"].text = "a\n2\na\n"
  /\ fs.call.args.hash = Str("1:be-2:be")
  /\ fs.call.args.new_text = Str("x")
  /\ fs.call.after.disk["/f"].text = "x\na\n"

(* A reversed range and a range with a stale anchor were refused. *)
C36_RefusedWitness ==
  /\ RangeEdit
  /\ EndAnchor.line < StartAnchor.line
  /\ AnchorMatches(LinesBefore, StartAnchor)
  /\ AnchorMatches(LinesBefore, EndAnchor)
  /\ EditRefused

(* The last call was an edit of /f that was applied. *)
EditApplied ==
  /\ fs.call.tool = "edit"
  /\ fs.call.args.file_path = Str("/f")
  /\ fs.call.result = Result("Edit applied successfully.", FALSE)

EndsWithNewlineBefore == endswith(fs.call.before.disk["/f"].text, "\n")
EndsWithNewlineAfter == endswith(fs.call.after.disk["/f"].text, "\n")

(***************************************************************************)
(* C37: a successful edit, single line or range, preserves the             *)
(* trailing-newline discipline of the replaced region: the replacement     *)
(* ends with a newline if and only if the last replaced line did, so the   *)
(* file ends with a newline after the edit if and only if it did before.   *)
(***************************************************************************)
C37_TrailingNewline == EditApplied => (EndsWithNewlineAfter <=> EndsWithNewlineBefore)

(* What does hold: the same for the single-line form with a new text that   *)
(* does not itself end with a newline.                                      *)
C37_SingleLine ==
  (/\ EditApplied
   /\ ~Contains(fs.call.args.hash.v, "-")
   /\ ~endswith(fs.call.args.new_text.v, "\n")) =>
    (EndsWithNewlineAfter <=> EndsWithNewlineBefore)

(* The file is "a", "2" without a final newline; the range over both lines  *)
(* is replaced by "x" and the file ends with a newline afterwards.          *)
C37_Witness ==
  /\ EditApplied
  /\ fs.call.args.hash = Str("1:be-2:be")
  /\ fs.call.args.new_text = Str("x")
  /\ fs.call.before.disk["/f"].text = "a\n2"
  /\ fs.call.after.disk["/f"].text = "x\n"

(* A single-line edit of the last line of a file without a final newline. *)
C37_SingleWitness ==
  /\ EditApplied
  /\ fs.call.args.hash = Str("2:be")
  /\ fs.call.before.disk["/f"].text = "a\n2"
  /\ fs.call.after.disk["/f"].text = "a\nx"

(* C38: the delays slept inside one retried create call are 1 s before the  *)
(* second attempt and 2 s before the third, the delay starts at 1 s, is      *)
(* doubled by each sleep and never exceeds 30 s; every sleep is followed by  *)
(* another attempt, so none is slept after the final failed attempt, and a   *)
(* non-retryable answer is surfaced without a sleep after it.                *)
C38_RetryDelays ==
  \A p \in Prompts :
    LET a == gen[p].answers
        s == gen[p].slept
    IN /\ Len(s) <= 2
       /\ \A i \in DOMAIN s : s[i] = (IF i = 1 THEN 1 ELSE 2)
       /\ gen[p].pc \notin {"init"} /\ a # <<>> => gen[p].backoff \in {1, 2, 4}
       /\ gen[p].backoff <= 30
       /\ a # <<>> =>
            Len(s) = (IF gen[p].pc = "creating" THEN Len(a) ELSE Len(a) - 1)
       /\ gen[p].pc = "sleeping" => Len(a) < 3 /\ Retryable(Last(a))
       /\ \A i \in DOMAIN a : ~Retryable(a[i]) => Len(s) = i - 1

C38_Witness ==
  \E p \in Prompts :
    /\ gen[p].pc = "done"
    /\ gen[p].slept = <<1, 2>>
    /\ Len(gen[p].answers) = 3
    /\ Retryable(gen[p].answers[3])

C38_NonRetryableWitness ==
  \E p \in Prompts :
    /\ gen[p].pc = "done"
    /\ gen[p].slept = <<1>>
    /\ Len(gen[p].answers) = 2
    /\ NonRetryable(gen[p].answers[2])

(* The handler of prompt p is inside "async with self._prompt_lock". *)
HoldsMutex(p) == h[p].pc \in {"run", "error"}

MutexFree ==
  /\ lockHolder # 0 => HoldsMutex(lockHolder)
  /\ \A p \in Prompts : HoldsMutex(p) => lockHolder = p
  /\ \A i \in DOMAIN waiters : h[waiters[i]].pc = "wait"
  /\ waiters # <<>> => lockHolder # 0

(* C39 as stated: the mutex is held only by a prompt handler that is inside *)
(* "async with" (so it is free after a normal end, after an exception of    *)
(* agent.prompt and after the cancellation of the handler), and every       *)
(* prompt that waits for the mutex is eventually admitted.                   *)
C39_MutexNeverLeaks ==
  /\ []MutexFree
  /\ \A p \in 1..GwPrompts : (h[p].pc = "wait") ~> (h[p].pc = "run")

(* C39, amended: the mutex is held only by a prompt handler that is inside  *)
(* "async with", and every prompt that waits for the mutex is eventually     *)
(* admitted unless its own handler is cancelled first because its            *)
(* connection closed.                                                        *)
C39_UnlessCancelled ==
  /\ []MutexFree
  /\ \A p \in 1..GwPrompts : (h[p].pc = "wait") ~> (h[p].pc \in {"run", "cancelled"})

(* The handler that held the mutex was cancelled inside its turn and the    *)
(* prompt that waited has been admitted.                                     *)
C39_Witness ==
  \E p, q \in Prompts :
    /\ h[p].pc = "cancelled" /\ gen[p].pc = "cancelled"
    /\ admitted = <<p, q>>
    /\ lockHolder = q /\ h[q].pc = "run"

(* agent.prompt raised, the error was broadcast and the mutex is free. *)
C39_RaisedWitness ==
  \E p \in Prompts :
    /\ h[p].pc = "done" /\ gen[p].exc # ""
    /\ \E c \in clients : Received(c, p) = <<user_message(PromptText(p)), error_message(gen[p].exc)>>
    /\ lockHolder = 0

(* A handler was cancelled while it waited: the prompt is never admitted. *)
C39_WaiterCancelled ==
  \E p, q \in Prompts :
    /\ h[q].pc = "cancelled" /\ gen[q].pc = "init"
    /\ requested = <<p, q>> /\ admitted = <<p>>
    /\ h[p].pc = "done" /\ lockHolder = 0

WasAdmitted(p) == \E i \in DOMAIN admitted : admitted[i] = p

(* The turn of prompt p got to agent_end and every connected client has it. *)
TurnCompleted(p) ==
  /\ events[p] # <<>> /\ Last(events[p]).type = "agent_end"
  /\ \A c \in clients \ closed :
       Received(c, p) # <<>> /\ Last(Received(c, p)).type = "agent_end"

(* A connection that has left the client set is closed and none of its      *)
(* handlers is left.                                                         *)
OutstandingCancelled ==
  \A c \in GwClients \ clients : c \in closed /\ TasksOf(c) = {}

(* C40: a connection that closes leaves the client set and its outstanding  *)
(* handlers are cancelled, and every prompt that was admitted to a running  *)
(* agent and whose handler is over has run to its agent_end, which every    *)
(* client that is still connected has received, whichever client sent it.   *)
C40_DisconnectOnlyThatClient ==
  /\ OutstandingCancelled
  /\ \A p \in Prompts :
       WasAdmitted(p) /\ h[p].pc \in {"done", "cancelled"} /\ gen[p].exc = "" =>
         TurnCompleted(p)

(* What holds: the turns of the prompts whose connection has not left the   *)
(* client set run to agent_end, and only handlers of a connection that has  *)
(* left are cancelled.                                                       *)
C40_TurnsOfOtherClients ==
  /\ OutstandingCancelled
  /\ \A p \in Prompts :
       /\ h[p].pc = "cancelled" => env.senders[p] \notin clients
       /\ WasAdmitted(p) /\ h[p].pc = "done" /\ gen[p].exc = "" => TurnCompleted(p)

(* The connection that sent the admitted prompt has gone in the middle of   *)
(* the turn: the client that remains has turn_start and never agent_end.    *)
C40_Witness ==
  \E p \in Prompts : \E c \in clients \ closed :
    /\ WasAdmitted(p) /\ h[p].pc = "cancelled" /\ gen[p].pc = "cancelled"
    /\ env.senders[p] \notin clients
    /\ \E i \in DOMAIN Received(c, p) : Received(c, p)[i].type = "turn_start"
    /\ \A i \in DOMAIN Received(c, p) : Received(c, p)[i].type # "agent_end"
    /\ \A q \in Prompts : h[q].pc \in {"done", "cancelled"}

(* A connection has gone and the turn of the other connection's prompt ran  *)
(* to its agent_end.                                                         *)
C40_OtherWitness ==
  \E p \in Prompts : \E c \in clients \ closed :
    /\ clients # GwClients
    /\ env.senders[p] = c
    /\ WasAdmitted(p) /\ h[p].pc = "done" /\ TurnCompleted(p)

====
